---------------------------- MODULE Spec2Model ----------------------------
(***************************************************************************)
(* Model of the Dallas property pipeline of texas-property-data:           *)
(*   - the document filter of runClerkScraper (clerk-scraper.ts) and the   *)
(*     subdivision post-filter of the second runAllScrapers of main.ts,    *)
(*   - the year-range compaction of saveDataToSupabase (main.ts),          *)
(*   - normalizeOwnerName and parseLegalDescription (main.ts), computed on *)
(*     texts,                                                              *)
(*   - the owners and the ownership history of saveDataToSupabase, in the  *)
(*     two variants that main.ts holds,                                    *)
(*   - runClerkScraper as a state machine, in its two source variants      *)
(*     (scrapers/dallas/clerk-scraper.ts and the recovery variant that     *)
(*     README.md documents), and runAllScrapers calling it.                *)
(* Text is a sequence of one-character strings, so that the regular        *)
(* expressions and toUpperCase are computed rather than assumed.           *)
(***************************************************************************)
EXTENDS Integers, Sequences, FiniteSets, TLC

VARIABLES
    \* ---- document filter (SpecFilter)
    fpc,            \* "start" | "filtered"
    fDocuments,     \* the extracted listing: a sequence of entries
    fTarget,        \* targetLegal: [lot, block, subdivision]
    fFiltered,      \* filteredDocuments of clerk-scraper.ts
    fPersisted,     \* filteredDocuments of the second runAllScrapers
    \* ---- interval compaction (SpecCompact)
    cpc,            \* "start" | "exemptions" | "ownership" | "exemptionsSecond"
    cInput,         \* the (key, year) observations, in input order
    recordsToInsert, \* the ranges produced
    \* ---- normalizeOwnerName, parseLegalDescription (SpecText)
    tpc,            \* "start" | "normalized" | "parsed"
    tInput,         \* the argument
    tOutput,        \* the value returned
    \* ---- the owners of saveDataToSupabase (SpecOwners)
    spc,            \* the position in saveDataToSupabase
    currentOwners,  \* owners.currentOwners: entries [name, address]
    ownershipHistory, \* ownershipHistory: entries [name, address, year]
    allOwners,      \* the Map of the run: a sequence of [name, address]
    owners,         \* the rows of table owners: [id, owner_name]
    ownerNameToIdMap, \* a sequence of [name, id], one entry per key
    ownership_history, \* the rows of table ownership_history
    marketValueHistory, \* the value rows of the page: [year, totalMarketValue]
    value_history,  \* the rows stored for the property: [year, total_market_value]
    \* ---- runClerkScraper (Spec, SpecBatch)
    variant,        \* "ts": scrapers/dallas/clerk-scraper.ts, "readme": README.md
    targetLegal,    \* the argument of runClerkScraper
    siteListing,    \* the rows the site lists for the search query
    pc,             \* the position in runClerkScraper
    err,            \* the message of the exception in flight, or NULL
    propagating,    \* an exception leaves the per-document try statement
    result,         \* the value returned, or NULL
    raised,         \* runClerkScraper rejected instead of returning
    stagehand,      \* the number of the current Stagehand object, 0: null
    stagehandClosed, \* README.md: the flag of safeClose
    openSessions,   \* the sessions initialised and not closed
    closeCalls,     \* how many times close() was called on each session
    lost,           \* the current session's page is closed
    page,           \* where the page is: [at, doc, no]
    table,          \* the rows of the results table the page shows
    documents,      \* the extracted listing
    filteredDocuments,
    processedDocs,
    index,          \* the position in filteredDocuments, from 1
    attempt,        \* README.md: 1 in the first processOnce, 2 in the retry
    summary,
    documentUrl,
    pageCount,
    pageNo,         \* the i of the page loop
    images,
    extractedText,
    calls,          \* history: the viewer opens, OCR and summarization calls of
                    \* the current capture attempt
    docLog,         \* history: per recorded document, its attempts and recoveries
    gotoLog,        \* history: the search queries issued
    faults,         \* how many faults the environment has injected
    \* ---- runAllScrapers (SpecBatch)
    opc,            \* the position in runAllScrapers
    property,       \* the position in propertiesToScrape, from 1
    parsedLegal,    \* the parsed legal description of the current property
    stages,         \* history: per property, how its stages ended
    property_documents, \* the stored document rows, per property
    \* ---- runDallasAssessmentScraper (SpecAssessment)
    apc,            \* the position in runDallasAssessmentScraper
    retry,          \* withRetry: i, the index of the attempt under way
    delayed,        \* withRetry: the attempt failed and the delay is running
    fnCalls,        \* history: per call of withRetry, the calls of fn made
    session,        \* the Stagehand session: "none" | "open" | "closed"
    caught,         \* the error the catch clause of the scraper holds
    assessmentResult, \* what the function returns
    assessmentRaised  \* the call rejected instead of returning

filterVars == <<fpc, fDocuments, fTarget, fFiltered, fPersisted>>
compactVars == <<cpc, cInput, recordsToInsert>>
textVars == <<tpc, tInput, tOutput>>
ownerVars ==
    <<spc, currentOwners, ownershipHistory, allOwners, owners, ownerNameToIdMap,
      ownership_history, marketValueHistory, value_history>>
assessVars ==
    <<apc, retry, delayed, fnCalls, session, caught, assessmentResult,
      assessmentRaised>>
dataVars == <<textVars, ownerVars, assessVars>>
inputVars == <<variant, targetLegal, siteListing>>
flowVars == <<pc, err, propagating, result, raised>>
sessionVars == <<stagehand, stagehandClosed, openSessions, closeCalls, lost>>
browserVars == <<page, table>>
listVars == <<documents, filteredDocuments>>
docVars == <<index, attempt, summary, documentUrl>>
captureVars == <<pageCount, pageNo, images, extractedText>>
historyVars == <<calls, docLog, gotoLog>>
clerkVars ==
    <<inputVars, flowVars, sessionVars, browserVars, listVars, docVars,
      captureVars, processedDocs, historyVars, faults>>
batchVars == <<opc, property, parsedLegal, stages, property_documents>>
vars == <<filterVars, compactVars, dataVars, clerkVars, batchVars>>

NULL == "null"

-----------------------------------------------------------------------------
(* Text                                                                    *)

Letters ==
    {"A","B","C","D","E","F","G","H","I","J","K","L","M",
     "N","O","P","Q","R","S","T","U","V","W","X","Y","Z"}

LowerLetters ==
    {"a","b","c","d","e","f","g","h","i","j","k","l","m",
     "n","o","p","q","r","s","t","u","v","w","x","y","z"}

Digits == {"0","1","2","3","4","5","6","7","8","9"}

\* String.prototype.toUpperCase on one character
UpperOf ==
    [a |-> "A", b |-> "B", c |-> "C", d |-> "D", e |-> "E", f |-> "F", g |-> "G",
     h |-> "H", i |-> "I", j |-> "J", k |-> "K", l |-> "L", m |-> "M", n |-> "N",
     o |-> "O", p |-> "P", q |-> "Q", r |-> "R", s |-> "S", t |-> "T", u |-> "U",
     v |-> "V", w |-> "W", x |-> "X", y |-> "Y", z |-> "Z"]

UpperChar(c) == IF c \in LowerLetters THEN UpperOf[c] ELSE c

toUpperCase(s) == [i \in 1..Len(s) |-> UpperChar(s[i])]

\* \w and \s of a JavaScript regular expression
IsWordChar(c) == c \in Letters \cup LowerLetters \cup Digits \cup {"_"}

IsSpaceChar(c) == c \in {" ", "\t", "\n"}

\* \b at the gap before position i of s (i in 1..Len(s)+1)
WordBoundary(s, i) ==
    LET before == i > 1 /\ IsWordChar(s[i - 1])
        after == i <= Len(s) /\ IsWordChar(s[i])
    IN  before # after

\* the literal lit occurs in s at position i
LiteralAt(s, i, lit) ==
    /\ i + Len(lit) - 1 <= Len(s)
    /\ \A k \in 1..Len(lit) : s[i + k - 1] = lit[k]

\* String.prototype.includes
Includes(s, lit) == \E i \in 1..(Len(s) + 1) : LiteralAt(s, i, lit)

\* new RegExp(`\\b(KW1|KW2):?\\s*${value}\\b`).test(s), for a value made of
\* letters and digits (no regular-expression metacharacter)
KeywordValueTest(s, keywords, value) ==
    \E i \in 1..Len(s) :
      /\ WordBoundary(s, i)
      /\ \E kw \in keywords :
            /\ LiteralAt(s, i, kw)
            /\ \E colon \in 0..1 :
                  /\ colon = 1 => LiteralAt(s, i + Len(kw), <<":">>)
                  /\ \E spaces \in 0..(Len(s) - i) :
                        LET afterColon == i + Len(kw) + colon
                            valueAt == afterColon + spaces
                        IN  /\ valueAt <= Len(s) + 1
                            /\ \A k \in afterColon..(valueAt - 1) :
                                  IsSpaceChar(s[k])
                            /\ LiteralAt(s, valueAt, value)
                            /\ WordBoundary(s, valueAt + Len(value))

LotKeywords == {<<"L","O","T">>, <<"L","T">>}

BlockKeywords == {<<"B","L","O","C","K">>, <<"B","L","K">>}

-----------------------------------------------------------------------------
(* Document filter                                                         *)

\* doc.legal_description?.toUpperCase() || '': an entry without a legal
\* description carries the empty text
DocLegal(doc) == toUpperCase(doc.legal_description)

\* the predicate of documents.filter in runClerkScraper
IsRelevant(doc, target) ==
    LET docLegal == DocLegal(doc)
        hasLot == KeywordValueTest(docLegal, LotKeywords, target.lot)
        hasBlock == KeywordValueTest(docLegal, BlockKeywords, target.block)
    IN  hasLot /\ hasBlock

\* documents.filter(...): Array.prototype.filter keeps the retained entries
\* in their order
FilterDocuments(docs, target) ==
    LET Keep(doc) == IsRelevant(doc, target)
    IN  SelectSeq(docs, Keep)

\* the predicate of clerkResult.data.documents.filter in the second
\* runAllScrapers of main.ts
IsRelevantBySubdivision(doc, legal) ==
    LET docLegal == DocLegal(doc)
    IN  /\ Includes(docLegal, toUpperCase(legal.subdivision))
        /\ Includes(docLegal, <<"L","O","T",":"," ">> \o legal.lot)
        /\ Includes(docLegal, <<"B","L","O","C","K",":"," ">> \o legal.block)

FilterDocumentsBySubdivision(docs, legal) ==
    LET Keep(doc) == IsRelevantBySubdivision(doc, legal)
    IN  SelectSeq(docs, Keep)

-----------------------------------------------------------------------------
(* Interval compaction (first saveDataToSupabase of main.ts)               *)

\* The observations are the cleaned entries: each has a key (an exemption
\* code or an owner id, a number here) and a year.
\* years.sort((a, b) => b - a)
RECURSIVE InsertDesc(_, _)
InsertDesc(sorted, y) ==
    IF sorted = <<>> THEN <<y>>
    ELSE IF y > Head(sorted) THEN <<y>> \o sorted
    ELSE <<Head(sorted)>> \o InsertDesc(Tail(sorted), y)

RECURSIVE SortDesc(_)
SortDesc(years) ==
    IF years = <<>> THEN <<>>
    ELSE InsertDesc(SortDesc(SubSeq(years, 1, Len(years) - 1)), years[Len(years)])

\* acc[curr.key].push(curr.year): the years of one key, in input order
YearsOf(cleaned, key) ==
    LET Keep(e) == e.key = key
        mine == SelectSeq(cleaned, Keep)
    IN  [i \in 1..Len(mine) |-> mine[i].year]

\* the keys in the order of their first occurrence: the for-in order of an
\* object whose keys are not integer-like (exemption codes)
RECURSIVE KeysByInsertion(_)
KeysByInsertion(cleaned) ==
    IF cleaned = <<>> THEN <<>>
    ELSE LET rest == KeysByInsertion(SubSeq(cleaned, 1, Len(cleaned) - 1))
             k == cleaned[Len(cleaned)].key
         IN  IF \E i \in 1..Len(rest) : rest[i] = k THEN rest ELSE Append(rest, k)

\* the keys in ascending order: the for-in order of an object whose keys are
\* integer-like (owner ids)
RECURSIVE AscendingSeq(_)
AscendingSeq(S) ==
    IF S = {} THEN <<>>
    ELSE LET m == CHOOSE x \in S : \A y \in S : x <= y
         IN  <<m>> \o AscendingSeq(S \ {m})

KeysAscending(cleaned) == AscendingSeq({cleaned[i].key : i \in 1..Len(cleaned)})

\* the scan without the reset of end_year after a range is closed: a faulty
\* scan, whose ranges overlap
RECURSIVE RangeScanNoReset(_, _, _, _, _)
RangeScanNoReset(key, years, i, end_year, acc) ==
    IF i > Len(years) THEN acc
    ELSE IF i = Len(years) \/ years[i + 1] # years[i] - 1
         THEN RangeScanNoReset(key, years, i + 1, end_year,
                               Append(acc, [key |-> key, start_year |-> years[i],
                                            end_year |-> end_year]))
         ELSE RangeScanNoReset(key, years, i + 1, end_year, acc)

\* the scan over one key's years (sorted descending):
\*   let end_year = years[0];
\*   for (i...) if (i === years.length - 1 || years[i+1] !== years[i] - 1) {
\*       push({start_year: years[i], end_year});
\*       if (i < years.length - 1) end_year = years[i+1]; }
\* i is 1-based here
RECURSIVE RangeScan(_, _, _, _, _)
RangeScan(key, years, i, end_year, acc) ==
    IF i > Len(years) THEN acc
    ELSE IF i = Len(years) \/ years[i + 1] # years[i] - 1
         THEN RangeScan(key, years, i + 1,
                        IF i < Len(years) THEN years[i + 1] ELSE end_year,
                        Append(acc, [key |-> key, start_year |-> years[i],
                                     end_year |-> end_year]))
         ELSE RangeScan(key, years, i + 1, end_year, acc)

RangesOfKey(cleaned, key) ==
    LET years == SortDesc(YearsOf(cleaned, key))
    IN  RangeScan(key, years, 1, years[1], <<>>)

RECURSIVE RangesOfKeys(_, _)
RangesOfKeys(cleaned, keys) ==
    IF keys = <<>> THEN <<>>
    ELSE RangesOfKey(cleaned, Head(keys)) \o RangesOfKeys(cleaned, Tail(keys))

\* exemptions: for (const code in groupedByCode) ...
CompactExemptions(cleaned) == RangesOfKeys(cleaned, KeysByInsertion(cleaned))

\* ownership history: for (const ownerId in groupedByOwner) ...
CompactOwnership(cleaned) == RangesOfKeys(cleaned, KeysAscending(cleaned))

\* second saveDataToSupabase, the scan over one code's years (sorted
\* descending):
\*   let currentRecord = { code, start_year: years[0], end_year: years[0] };
\*   for (let i = 1; ...) if (year === currentRecord.start_year - 1)
\*       currentRecord.start_year = year;
\*     else { processedRanges.push(currentRecord); currentRecord = {...} }
\*   processedRanges.push(currentRecord)
\* i is 1-based here
RECURSIVE RecordScan(_, _, _, _, _)
RecordScan(key, years, i, currentRecord, acc) ==
    IF i > Len(years) THEN Append(acc, currentRecord)
    ELSE IF years[i] = currentRecord.start_year - 1
         THEN RecordScan(key, years, i + 1,
                         [currentRecord EXCEPT !.start_year = years[i]], acc)
         ELSE RecordScan(key, years, i + 1,
                         [key |-> key, start_year |-> years[i], end_year |-> years[i]],
                         Append(acc, currentRecord))

\* second saveDataToSupabase: processedRanges of one code
RecordsOfKey(cleaned, key) ==
    LET years == SortDesc(YearsOf(cleaned, key))
    IN  RecordScan(key, years, 2,
                   [key |-> key, start_year |-> years[1], end_year |-> years[1]], <<>>)

RECURSIVE RecordsOfKeys(_, _)
RecordsOfKeys(cleaned, keys) ==
    IF keys = <<>> THEN <<>>
    ELSE RecordsOfKey(cleaned, Head(keys)) \o RecordsOfKeys(cleaned, Tail(keys))

\* second saveDataToSupabase: allProcessedExemptions, over
\* exemptionsByCode.entries() (a Map: insertion order)
CompactExemptionsSecond(cleaned) == RecordsOfKeys(cleaned, KeysByInsertion(cleaned))

-----------------------------------------------------------------------------
(* Bounds and input sets                                                   *)

MaxListing == 2

MaxObs == 4

NumKeys == 2

YearSpan == 3

BoundedSeq(S, n) == UNION {[1..k -> S] : k \in 0..n}

\* legal-description texts: an optional subdivision name, a lot part, a block
\* part
SubdivisionNames == {<<"O","A","K">>, <<"E","L","M">>}

TextPrefixes == {<<>>, <<"O","A","K"," ">>}

LotParts ==
    { <<"L","O","T"," ","3">>,
      <<"L","O","T",":"," ","3">>,
      <<"L","T","3">>,
      <<"L","O","T"," ","3","1">>,
      <<"P","L","O","T"," ","3">>,
      <<"l","o","t"," ","3">> }

BlockParts ==
    { <<"B","L","O","C","K"," ","1","2">>,
      <<"B","L","O","C","K",":"," ","1","2">>,
      <<"B","L","K"," ","1","2","0">>,
      <<"b","l","k"," ","a">> }

LegalTexts ==
    {pre \o lot \o <<" ">> \o blk :
        pre \in TextPrefixes, lot \in LotParts, blk \in BlockParts}

FilterEntries == [legal_description : LegalTexts \cup {<<>>}]

TargetLots == {<<"1">>, <<"3">>}

TargetBlocks == {<<"1","2">>, <<"A">>, <<"a">>}

FilterTargets ==
    [lot : TargetLots, block : TargetBlocks, subdivision : SubdivisionNames]

Keys == 1..NumKeys

Years == {2015 + d : d \in 0..YearSpan}

Observations == [key : Keys, year : Years]

\* the observations of the worked example: one key, years 2015, 2019..2022
ExampleObservations ==
    [i \in 1..5 |-> [key |-> 1, year |-> <<2015, 2019, 2020, 2021, 2022>>[i]]]

-----------------------------------------------------------------------------
(* runClerkScraper: values                                                 *)

MaxDocs == 3

MaxPages == 2

MaxFaults == 2

BatchSize == 2

\* let documentUrl = null: a document URL is the number of the document whose
\* viewer the page shows, and 0 when there is none
NullUrl == 0

\* let summary = 'Summary could not be generated.'
Sentinel == "Summary could not be generated."

\* a summary left from the document before: a faulty initialisation
KeptSummary == IF summary = NULL THEN Sentinel ELSE summary

\* the value of summary at the top of the loop body
InitialSummary == Sentinel

BlankPage == [at |-> "blank", doc |-> 0, no |-> 0]

ListingPage == [at |-> "listing", doc |-> 0, no |-> 0]

ViewerPage(d) == [at |-> "viewer", doc |-> d, no |-> 1]

\* page.url() in the viewer of document d
UrlOf(d) == d

NoCalls == [open |-> 0, ocr |-> 0, summarize |-> 0]

\* the messages of the errors the remote calls raise
ClosedMessage == "Target page, context or browser has been closed"

TimeoutMessage == "Timeout exceeded"

ApiMessage == "API request for summarization failed with status 500"

\* fetch rejects: the request never reached the API
TransportMessage == "fetch failed"

\* response.json() rejects: the body of the response is not JSON
ParseMessage == "Unexpected token < in JSON at position 0"

\* a retry that counts as the attempt before it: a faulty count
SameAttempt == attempt

\* README.md: the processOnce() of the catch clause is the next attempt
RetryAttempt == attempt + 1

\* a flag that still says closed after a new session: a faulty reset
StaleFlag == TRUE

\* README.md: stagehandClosed = false; // new session
NewSessionFlag == FALSE

\* a close that leaves the session open: a faulty close
KeepOpen(sessions, s) == sessions

\* stagehand.close(): the session is no longer open
Discard(sessions, s) == sessions \ {s}

\* a test that takes every error for a lost session: a faulty test
AnyErr(message) == TRUE

\* README.md: /Target .*closed|Session closed|context has been closed/i.test(message)
isClosedErr(message) ==
    message \in {ClosedMessage, "Session closed", "context has been closed"}

\* the environment may still inject a fault
MayFail == faults < MaxFaults

\* what a page operation can do: succeed, time out, or find the session
\* closed; on a closed session it can only fail
PageOutcomes ==
    IF lost THEN {ClosedMessage}
    ELSE IF MayFail THEN {"ok", ClosedMessage, TimeoutMessage}
    ELSE {"ok"}

\* whether a session call (init, close) succeeds
CallOutcomes == IF MayFail THEN {TRUE, FALSE} ELSE {TRUE}

\* what the model API answers: text, a response without candidates, a body
\* that is not JSON, a non-OK status, or nothing (a transport error)
ApiResponses == {"text", "empty", "unparsable", "status", "transport"}

\* the error raised inside the try block of a call of the API
ApiError(response) ==
    CASE response = "unparsable" -> ParseMessage
      [] response = "status" -> ApiMessage
      [] response = "transport" -> TransportMessage

ApiOutcomes == IF MayFail THEN ApiResponses ELSE {"text"}

DocumentText == "text of the document"

\* getTextFromImages(images)
getTextFromImages(imgs, response) ==
    IF imgs = <<>> THEN ""
    ELSE CASE response = "text" -> DocumentText
           [] response = "empty" -> "Could not extract text from images."
           [] OTHER -> "Failed to extract text due to a critical error."

\* the text the model generates as the summary of a text
GeneratedSummary(text) ==
    IF text = DocumentText THEN "summary of the document"
    ELSE "summary of the message: " \o text

\* a summarization that answers every failure of the request with a
\* string: a faulty summarization
summarizeSwallowing(text, response) ==
    IF text = "" THEN [threw |-> FALSE, value |-> "No text to summarize."]
    ELSE IF response = "text" THEN [threw |-> FALSE, value |-> GeneratedSummary(text)]
    ELSE [threw |-> FALSE, value |-> "Failed to generate summary."]

\* summarizeDocumentText(text): [threw, value]
summarizeDocumentText(text, response) ==
    IF text = "" THEN [threw |-> FALSE, value |-> "No text to summarize."]
    ELSE CASE response = "text" -> [threw |-> FALSE, value |-> GeneratedSummary(text)]
           [] response = "empty" -> [threw |-> FALSE, value |-> "Failed to generate summary."]
           [] OTHER -> [threw |-> TRUE, value |-> ApiError(response)]

\* const searchUrl = `...&lot=..&block=..&block2=..&legalDescription=..`
SearchUrl(target) ==
    [lot |-> target.lot, block |-> target.block, block2 |-> target.city_block,
     legalDescription |-> target.subdivision]

\* documents.findIndex(d => d.instrument_number === doc.instrument_number),
\* from 1; 0 when there is none
FindIndex(docs, doc) ==
    IF \E i \in 1..Len(docs) : docs[i].instrument_number = doc.instrument_number
    THEN CHOOSE i \in 1..Len(docs) :
            /\ docs[i].instrument_number = doc.instrument_number
            /\ \A j \in 1..(i - 1) : docs[j].instrument_number # doc.instrument_number
    ELSE 0

\* processedDocs.push({ ...doc, summary, documentUrl })
ProcessedDoc(doc, s, url) ==
    [doc_id |-> doc.doc_id, instrument_number |-> doc.instrument_number,
     legal_description |-> doc.legal_description, summary |-> s, documentUrl |-> url]

\* a push that leaves out the document whose capture failed: a faulty push
PushUnlessFailed(docs, doc, s, url) ==
    IF s = Sentinel THEN docs ELSE Append(docs, ProcessedDoc(doc, s, url))

\* processedDocs.push({ ...doc, summary, documentUrl }), in the finally clause
Push(docs, doc, s, url) == Append(docs, ProcessedDoc(doc, s, url))

\* page.goBack(): one entry back in the history blank, listing, viewer
Back(p) == IF p.at = "viewer" THEN ListingPage ELSE BlankPage

Reverse(seq) == [i \in 1..Len(seq) |-> seq[Len(seq) + 1 - i]]

\* the rows a replay of the search can list: the same rows, in the same or
\* in another order
Replays(listing) == {listing, Reverse(listing)}

\* the inputs of a run
OakText == <<"O","A","K">>

MatchingText == <<"L","O","T"," ","3"," ","B","L","O","C","K"," ","1","2">>

OtherText == <<"L","O","T"," ","3","1"," ","B","L","O","C","K"," ","1","2">>

ClerkTargets ==
    {[lot |-> <<"3">>, block |-> <<"1","2">>, city_block |-> NULL,
      subdivision |-> OakText]}

RowKinds ==
    [instrument_number : {"A", "B", NULL}, legal_description : {MatchingText}]
    \cup [instrument_number : {"A"}, legal_description : {OtherText}]

\* the listings of at most n rows; doc_id is the document a row stands for
\* (its position in the site's listing), which the code never reads
Listings(n) ==
    UNION {{[i \in 1..k |->
                [doc_id |-> i, instrument_number |-> kinds[i].instrument_number,
                 legal_description |-> kinds[i].legal_description]] :
              kinds \in [1..k -> RowKinds]} : k \in 0..n}

NewDocLog == [attempts |-> 0, recoveries |-> 0, lostFirst |-> FALSE, completed |-> FALSE]

-----------------------------------------------------------------------------
(* Idle values of the variables a specification does not use               *)

FilterIdle ==
    /\ fpc = "idle"
    /\ fDocuments = <<>>
    /\ fTarget = NULL
    /\ fFiltered = <<>>
    /\ fPersisted = <<>>

CompactIdle ==
    /\ cpc = "idle"
    /\ cInput = <<>>
    /\ recordsToInsert = <<>>

\* the values of the variables of runClerkScraper before a call of it
ClerkReset ==
    /\ err = NULL
    /\ propagating = FALSE
    /\ result = [success |-> FALSE, data |-> <<>>, error |-> NULL]
    /\ raised = FALSE
    /\ stagehand = 0
    /\ stagehandClosed = FALSE
    /\ openSessions = {}
    /\ closeCalls = <<>>
    /\ lost = FALSE
    /\ page = BlankPage
    /\ table = <<>>
    /\ documents = <<>>
    /\ filteredDocuments = <<>>
    /\ processedDocs = <<>>
    /\ index = 0
    /\ attempt = 0
    /\ summary = NULL
    /\ documentUrl = NullUrl
    /\ pageCount = 0
    /\ pageNo = 0
    /\ images = <<>>
    /\ extractedText = NULL
    /\ calls = NoCalls
    /\ docLog = <<>>
    /\ gotoLog = <<>>

ClerkIdle ==
    /\ variant = NULL
    /\ targetLegal = NULL
    /\ siteListing = <<>>
    /\ pc = "idle"
    /\ ClerkReset
    /\ faults = 0

BatchIdle ==
    /\ opc = "idle"
    /\ property = 0
    /\ parsedLegal = NULL
    /\ stages = <<>>
    /\ property_documents = <<>>

\* the first position from i on that holds no white space (Len(s) + 1 when
\* there is none): where a greedy \s* ends
RECURSIVE SkipSpaces(_, _)
SkipSpaces(s, i) ==
    IF i <= Len(s) /\ IsSpaceChar(s[i]) THEN SkipSpaces(s, i + 1) ELSE i

\* String.prototype.trim
RECURSIVE trimEnd(_)
trimEnd(s) ==
    IF s # <<>> /\ IsSpaceChar(s[Len(s)]) THEN trimEnd(SubSeq(s, 1, Len(s) - 1)) ELSE s

trim(s) == trimEnd(SubSeq(s, SkipSpaces(s, 1), Len(s)))

\* .replace(/[,.]/g, '')
RemoveCommasAndPeriods(s) ==
    LET Keep(c) == c \notin {",", "."}
    IN  SelectSeq(s, Keep)

\* .replace(/\s+/g, ' '), from position i on
RECURSIVE CollapseSpaces(_, _)
CollapseSpaces(s, i) ==
    IF i > Len(s) THEN <<>>
    ELSE IF IsSpaceChar(s[i])
         THEN <<" ">> \o CollapseSpaces(s, SkipSpaces(s, i))
         ELSE <<s[i]>> \o CollapseSpaces(s, i + 1)

\* /&\s*ET\s*AL/ matched at position i of s: the position after the match, 0
\* when it does not match there
EtAlEnd(s, i) ==
    IF i > Len(s) \/ s[i] # "&" THEN 0
    ELSE LET et == SkipSpaces(s, i + 1)
             al == SkipSpaces(s, et + 2)
         IN  IF LiteralAt(s, et, <<"E","T">>) /\ LiteralAt(s, al, <<"A","L">>)
             THEN al + 2 ELSE 0

\* .replace(/&\s*ET\s*AL/g, ''), from position i on
RECURSIVE RemoveEtAl(_, _)
RemoveEtAl(s, i) ==
    IF i > Len(s) THEN <<>>
    ELSE IF EtAlEnd(s, i) # 0 THEN RemoveEtAl(s, EtAlEnd(s, i))
         ELSE <<s[i]>> \o RemoveEtAl(s, i + 1)

\* normalizeOwnerName
normalizeOwnerName(name) ==
    trim(RemoveEtAl(CollapseSpaces(RemoveCommasAndPeriods(toUpperCase(name)), 1), 1))

\* a value of the parser's result: null, or a text
NullValue == [kind |-> "null", text |-> <<>>]

TextValue(t) == [kind |-> "text", text |-> t]

\* match[k] || null
ValueOrNull(t) == IF t = <<>> THEN NullValue ELSE TextValue(t)

\* String.prototype.indexOf, 1-based, 0 when lit does not occur
IndexOf(s, lit) ==
    IF Includes(s, lit)
    THEN CHOOSE i \in 1..(Len(s) + 1) :
            /\ LiteralAt(s, i, lit)
            /\ \A j \in 1..(i - 1) : ~LiteralAt(s, j, lit)
    ELSE 0

\* description.split('\n')
RECURSIVE SplitLines(_)
SplitLines(s) ==
    LET at == IndexOf(s, <<"\n">>)
    IN  IF at = 0 THEN <<s>>
        ELSE <<SubSeq(s, 1, at - 1)>> \o SplitLines(SubSeq(s, at + 1, Len(s)))

\* description.split('\n').map(line => line.trim()).filter(line => line)
TrimmedLines(description) ==
    LET split == SplitLines(description)
        NonEmpty(line) == line # <<>>
    IN  SelectSeq([i \in 1..Len(split) |-> trim(split[i])], NonEmpty)

\* lines.join(' ')
RECURSIVE JoinLines(_)
JoinLines(lines) ==
    IF lines = <<>> THEN <<>>
    ELSE IF Len(lines) = 1 THEN lines[1]
         ELSE lines[1] \o <<" ">> \o JoinLines(Tail(lines))

\* where a greedy [^\s/]+, \S+ or \d+ that starts at i ends (i itself when
\* it matches nothing)
RECURSIVE SkipToken(_, _)
SkipToken(s, i) ==
    IF i <= Len(s) /\ ~IsSpaceChar(s[i]) /\ s[i] # "/" THEN SkipToken(s, i + 1) ELSE i

RECURSIVE SkipNonSpace(_, _)
SkipNonSpace(s, i) ==
    IF i <= Len(s) /\ ~IsSpaceChar(s[i]) THEN SkipNonSpace(s, i + 1) ELSE i

RECURSIVE SkipDigits(_, _)
SkipDigits(s, i) ==
    IF i <= Len(s) /\ s[i] \in Digits THEN SkipDigits(s, i + 1) ELSE i

\* the alternatives of the two patterns, in upper case (flag i)
BlockWords == {<<"B","L","K">>, <<"B","L","O","C","K">>}

LotWords == {<<"L","T","S">>, <<"L","T">>, <<"L","O","T","S">>, <<"L","O","T">>}

\* a second group (?:\s*SEP\s*(...))? tried after position i: the positions
\* [from, to) of its capture, from = to when the group matches nothing
SecondGroup(s, i, sep, digitsOnly) ==
    LET sepAt == SkipSpaces(s, i)
        from == SkipSpaces(s, sepAt + 1)
        to == IF digitsOnly THEN SkipDigits(s, from) ELSE SkipNonSpace(s, from)
    IN  IF sepAt <= Len(s) /\ s[sepAt] = sep /\ to > from
        THEN [from |-> from, to |-> to]
        ELSE [from |-> i, to |-> i]

\* /(?:BLK|BLOCK)\s*([^\s/]+)(?:\s*\/\s*(\S+))?/i at position i of s:
\* the captures, or matched = FALSE
BlockMatchAt(s, i) ==
    LET upper == toUpperCase(s)
        words == {w \in BlockWords : LiteralAt(upper, i, w)}
        word == CHOOSE w \in words : TRUE
        from == SkipSpaces(s, i + Len(word))
        to == SkipToken(s, from)
        second == SecondGroup(s, to, "/", FALSE)
    IN  IF words # {} /\ to > from
        THEN [matched |-> TRUE, first |-> SubSeq(s, from, to - 1),
              second |-> SubSeq(s, second.from, second.to - 1)]
        ELSE [matched |-> FALSE, first |-> <<>>, second |-> <<>>]

\* /(?:LTS|LT|LOTS|LOT)\s*(\d+)(?:\s*&\s*(\d+))?/i at position i of s: of
\* the alternatives that occur at i, at most one is followed by \s*\d+
LotMatchAt(s, i) ==
    LET upper == toUpperCase(s)
        words == {w \in LotWords :
                    /\ LiteralAt(upper, i, w)
                    /\ SkipDigits(s, SkipSpaces(s, i + Len(w)))
                          > SkipSpaces(s, i + Len(w))}
        word == CHOOSE w \in words : TRUE
        from == SkipSpaces(s, i + Len(word))
        to == SkipDigits(s, from)
        second == SecondGroup(s, to, "&", TRUE)
    IN  IF words # {}
        THEN [matched |-> TRUE, first |-> SubSeq(s, from, to - 1),
              second |-> SubSeq(s, second.from, second.to - 1)]
        ELSE [matched |-> FALSE, first |-> <<>>, second |-> <<>>]

\* a faulty match: the rightmost one
LastBlockMatch(s) ==
    LET starts == {i \in 1..Len(s) : BlockMatchAt(s, i).matched}
    IN  IF starts = {} THEN BlockMatchAt(s, Len(s) + 1)
        ELSE BlockMatchAt(s, CHOOSE i \in starts : \A j \in starts : i >= j)

\* fullDescription.match(/(?:BLK|BLOCK).../i): the leftmost match
BlockMatch(s) ==
    LET starts == {i \in 1..Len(s) : BlockMatchAt(s, i).matched}
    IN  IF starts = {} THEN BlockMatchAt(s, Len(s) + 1)
        ELSE BlockMatchAt(s, CHOOSE i \in starts : \A j \in starts : i <= j)

\* fullDescription.match(/(?:LTS|LT|LOTS|LOT).../i): the leftmost match
LotMatch(s) ==
    LET starts == {i \in 1..Len(s) : LotMatchAt(s, i).matched}
    IN  IF starts = {} THEN LotMatchAt(s, Len(s) + 1)
        ELSE LotMatchAt(s, CHOOSE i \in starts : \A j \in starts : i <= j)

\* a faulty result.subdivision: the first line whatever the description holds
FirstLineAsSubdivision(lines, fullDescription) ==
    IF Len(lines) > 0 THEN TextValue(lines[1]) ELSE NullValue

\* parseLegalDescription: result.subdivision
ParsedSubdivision(lines, fullDescription) ==
    LET blockIndex == IndexOf(toUpperCase(fullDescription), <<"B","L","K">>) - 1
    IN  IF blockIndex > 0
        THEN TextValue(trim(SubSeq(fullDescription, 1, blockIndex)))
        ELSE IF /\ Len(lines) > 0
                /\ ~Includes(toUpperCase(lines[1]), <<"B","L","K">>)
                /\ ~Includes(toUpperCase(lines[1]), <<"B","L","O","C","K">>)
             THEN TextValue(lines[1])
             ELSE NullValue

\* parseLegalDescription(description): description is [kind, text] with kind
\* "text", "null" or "undefined"; the object returned is a record, {} the
\* record without fields
parseLegalDescription(description) ==
    IF description.kind # "text" \/ description.text = <<>> THEN <<>>
    ELSE LET lines == TrimmedLines(description.text)
             fullDescription == JoinLines(lines)
             blockMatch == BlockMatch(fullDescription)
             lotMatch == LotMatch(fullDescription)
         IN  [subdivision |-> ParsedSubdivision(lines, fullDescription),
              block |-> IF blockMatch.matched THEN ValueOrNull(blockMatch.first)
                        ELSE NullValue,
              city_block |-> IF blockMatch.matched THEN ValueOrNull(blockMatch.second)
                             ELSE NullValue,
              lot1 |-> IF lotMatch.matched THEN ValueOrNull(lotMatch.first)
                       ELSE NullValue,
              lot2 |-> IF lotMatch.matched THEN ValueOrNull(lotMatch.second)
                       ELSE NullValue]

\* owner names: a base name and what follows it
NameBases ==
    {<<"J","O","H","N"," ","S","M","I","T","H">>,
     <<"J","o","h","n"," ","S","m","i","t","h">>,
     <<"S","M","I","T","H",","," ","J",".">>,
     <<"J","O","H","N"," "," ","S","M","I","T","H">>,
     <<" ","J","O","H","N"," ","S","M","I","T","H">>,
     <<"J","O","H","N"," ","&"," ","E","T"," ","A","L","L","E","N">>,
     <<"M"," ","&"," ","E","T"," ","A","L"," ","N">>,
     <<"E","S","T","A","T","E"," ","O","F"," ","J">>}

NameSuffixes ==
    {<<>>,
     <<" ","&"," ","E","T"," ","A","L">>,
     <<" ","&","E","T"," ","A","L">>,
     <<" ","&"," ","E","T"," "," ","A","L">>,
     <<" ","&"," ","e","t"," ","a","l">>,
     <<" ","&"," ","E","T","."," ","A","L",".">>,
     <<" ","&"," ","E","T","A","L"," ">>}

OwnerNames == {base \o suffix : base \in NameBases, suffix \in NameSuffixes}

\* legal descriptions: a subdivision, a block part, a lot part and what
\* follows them, separated by a line break or a space; every part comes
\* with the values written in it (<<>>: none)
SubdivisionParts ==
    {<<>>,
     <<"S","T"," ","A","U","G","U","S","T","I","N","E"," ","H","I","G","H","L","A","N","D","S">>,
     <<"O","a","k"," ","H","i","l","l">>}

Separators == {<<"\n">>, <<" ">>}

DescribedBlocks ==
    {[text |-> <<>>, block |-> <<>>, city_block |-> <<>>],
     [text |-> <<"B","L","K"," ","N","/","6","7","5","7">>, block |-> <<"N">>, city_block |-> <<"6","7","5","7">>],
     [text |-> <<"B","L","K"," ","5">>, block |-> <<"5">>, city_block |-> <<>>],
     [text |-> <<"B","L","O","C","K"," ","7"," ","/"," ","9">>, block |-> <<"7">>, city_block |-> <<"9">>],
     [text |-> <<"b","l","k"," ","a">>, block |-> <<"a">>, city_block |-> <<>>],
     [text |-> <<"B","l","o","c","k"," ","1","2","/","B">>, block |-> <<"1","2">>, city_block |-> <<"B">>]}

DescribedLots ==
    {[text |-> <<>>, lot1 |-> <<>>, lot2 |-> <<>>],
     [text |-> <<"L","T"," ","8">>, lot1 |-> <<"8">>, lot2 |-> <<>>],
     [text |-> <<"L","O","T","S"," ","3"," ","&"," ","4">>, lot1 |-> <<"3">>, lot2 |-> <<"4">>],
     [text |-> <<"L","o","t"," ","1","2">>, lot1 |-> <<"1","2">>, lot2 |-> <<>>],
     [text |-> <<"L","T","S"," ","1","&","2">>, lot1 |-> <<"1">>, lot2 |-> <<"2">>]}

DescribedTails ==
    {[text |-> <<>>, block |-> <<>>, city_block |-> <<>>, lot1 |-> <<>>, lot2 |-> <<>>],
     [text |-> <<" ","B","L","K"," ","9","/","1"," ","L","O","T"," ","7">>, block |-> <<"9">>, city_block |-> <<"1">>, lot1 |-> <<"7">>, lot2 |-> <<>>]}

DescriptionOf(sub, sep1, blk, sep2, lot, tail) ==
    sub \o sep1 \o blk.text \o sep2 \o lot.text \o tail.text

BuiltDescriptions ==
    {DescriptionOf(sub, sep1, blk, sep2, lot, tail) :
        sub \in SubdivisionParts, sep1 \in Separators, blk \in DescribedBlocks,
        sep2 \in Separators, lot \in DescribedLots, tail \in DescribedTails}

\* descriptions outside that form
IrregularDescriptions ==
    {<<>>,
     <<" "," "," ">>,
     <<"\n","\n">>,
     <<"B","L","K">>,
     <<"B","L","K"," ","/">>,
     <<"L","O","T">>,
     <<"B","L","K"," ","5"," ","L","O","T">>,
     <<"O","A","K"," ","B","L","O","C","K"," ","5">>,
     <<"O","A","K","\n","B","L","O","C","K"," ","5","\n","L","O","T"," ","A">>,
     <<"B","L","K","5","L","T","6">>,
     <<"O","A","K"," ","A","D","D","N","\n","L","T"," ","8"," ","B","L","K"," ","N","/","6","7","5","7">>,
     <<" "," ","O","a","k"," ","H","i","l","l"," "," ","\n">>}

\* the argument of parseLegalDescription: string | undefined | null
Descriptions ==
    {[kind |-> "text", text |-> t] : t \in BuiltDescriptions \cup IrregularDescriptions}
        \cup {[kind |-> "null", text |-> <<>>], [kind |-> "undefined", text |-> <<>>]}

-----------------------------------------------------------------------------
(* SpecText: normalizeOwnerName and parseLegalDescription applied to a     *)
(* text                                                                    *)

TextIdle ==
    /\ tpc = "idle"
    /\ tInput = NULL
    /\ tOutput = NULL

OwnersIdle ==
    /\ spc = "idle"
    /\ currentOwners = <<>>
    /\ ownershipHistory = <<>>
    /\ allOwners = <<>>
    /\ owners = <<>>
    /\ ownerNameToIdMap = <<>>
    /\ ownership_history = <<>>
    /\ marketValueHistory = <<>>
    /\ value_history = <<>>

\* the calls of the assessment scraper that go through withRetry
RetriedCalls == {"legalDescriptionData", "mainPageData"}

\* no error
NoError == <<>>

AssessIdle ==
    /\ apc = "idle"
    /\ retry = 0
    /\ delayed = FALSE
    /\ fnCalls = [c \in RetriedCalls |-> 0]
    /\ session = "none"
    /\ caught = NoError
    /\ assessmentResult = NULL
    /\ assessmentRaised = FALSE

DataIdle == TextIdle /\ OwnersIdle /\ AssessIdle

TextInit ==
    /\ tpc = "start"
    /\ tInput \in Descriptions \cup {[kind |-> "text", text |-> t] : t \in OwnerNames}
    /\ tOutput = NULL
    /\ OwnersIdle
    /\ AssessIdle
    /\ FilterIdle
    /\ CompactIdle
    /\ ClerkIdle
    /\ BatchIdle

\* normalizeOwnerName(name: string)
Normalize ==
    /\ tpc = "start"
    /\ tInput.kind = "text"
    /\ tOutput' = normalizeOwnerName(tInput.text)
    /\ tpc' = "normalized"
    /\ UNCHANGED <<tInput, ownerVars, assessVars, filterVars, compactVars, clerkVars, batchVars>>

\* parseLegalDescription(description)
Parse ==
    /\ tpc = "start"
    /\ tOutput' = parseLegalDescription(tInput)
    /\ tpc' = "parsed"
    /\ UNCHANGED <<tInput, ownerVars, assessVars, filterVars, compactVars, clerkVars, batchVars>>

TextNext == Normalize \/ Parse

SpecText == TextInit /\ [][TextNext]_vars

-----------------------------------------------------------------------------
(* The owners of saveDataToSupabase                                        *)

\* new Date().getFullYear()
CurrentYear == 2020

\* the address lines of ownerNameAndAddress
HistoryAddress == "H"

\* a Map is the sequence of its entries [name, value], in insertion order
HasKey(map, name) == \E i \in 1..Len(map) : map[i].name = name

\* Map.prototype.set: the value of a key that exists is replaced in place
MapSet(map, name, value) ==
    IF HasKey(map, name)
    THEN [i \in 1..Len(map) |->
            IF map[i].name = name THEN [name |-> name, value |-> value] ELSE map[i]]
    ELSE Append(map, [name |-> name, value |-> value])

\* Map.prototype.get, 0 for undefined (the values looked up are identifiers)
MapGet(map, name) ==
    IF HasKey(map, name)
    THEN map[CHOOSE i \in 1..Len(map) : map[i].name = name].value
    ELSE 0

\* new Map(pairs)
RECURSIVE NewMap(_)
NewMap(pairs) ==
    IF pairs = <<>> THEN <<>>
    ELSE LET last == pairs[Len(pairs)]
         IN  MapSet(NewMap(SubSeq(pairs, 1, Len(pairs) - 1)), last.name, last.value)

\* currentOwners?.forEach(owner => { if (owner.name)
\*     allOwners.set(owner.name.trim(), { address: owner.address?.trim() }) })
RECURSIVE AddCurrentOwners(_, _)
AddCurrentOwners(map, list) ==
    IF list = <<>> THEN map
    ELSE AddCurrentOwners(
            IF Head(list).name # <<>>
            THEN MapSet(map, trim(Head(list).name), Head(list).address)
            ELSE map,
            Tail(list))

\* ownershipHistory?.forEach(rec => { const name = ...trim();
\*     if (name && !allOwners.has(name)) allOwners.set(name, { address }) })
RECURSIVE AddHistoryOwners(_, _)
AddHistoryOwners(map, list) ==
    IF list = <<>> THEN map
    ELSE AddHistoryOwners(
            IF trim(Head(list).name) # <<>> /\ ~HasKey(map, trim(Head(list).name))
            THEN MapSet(map, trim(Head(list).name), HistoryAddress)
            ELSE map,
            Tail(list))

AllOwners(current, history) ==
    AddHistoryOwners(AddCurrentOwners(<<>>, current), history)

\* supabase.from('owners').upsert(ownerRecords, { onConflict: 'owner_name' })
\*     .select('id, owner_name'): one row per owner_name, in the order of
\* ownerRecords; the identifiers are the positions
UpsertedOwners(map) ==
    [i \in 1..Len(map) |-> [id |-> i, owner_name |-> map[i].name]]

\* first saveDataToSupabase:
\*   new Map(upsertedOwners.map(o => [normalizeOwnerName(o.owner_name), o.id]))
NormalizedNameToId(rows) ==
    NewMap([i \in 1..Len(rows) |->
              [name |-> normalizeOwnerName(rows[i].owner_name), value |-> rows[i].id]])

\* second saveDataToSupabase:
\*   new Map(upsertedOwners.map(o => [o.owner_name, o.id]))
RawNameToId(rows) ==
    NewMap([i \in 1..Len(rows) |->
              [name |-> rows[i].owner_name, value |-> rows[i].id]])

\* first saveDataToSupabase: cleaned, the (owner_id, year) of the history
\* entries whose owner has an identifier
CleanedHistory(history, idMap) ==
    LET all == [i \in 1..Len(history) |->
                  [key |-> MapGet(idMap, normalizeOwnerName(trim(history[i].name))),
                   year |-> history[i].year]]
        Known(rec) == rec.key # 0
    IN  SelectSeq(all, Known)

\* .sort((a, b) => b.year - a.year): a stable sort, entries of one year keep
\* their order
RECURSIVE InsertByYear(_, _)
InsertByYear(sorted, entry) ==
    IF sorted = <<>> THEN <<entry>>
    ELSE IF Head(sorted).year >= entry.year
         THEN <<Head(sorted)>> \o InsertByYear(Tail(sorted), entry)
         ELSE <<entry>> \o sorted

RECURSIVE SortByYear(_)
SortByYear(seq) ==
    IF seq = <<>> THEN <<>>
    ELSE InsertByYear(SortByYear(SubSeq(seq, 1, Len(seq) - 1)), seq[Len(seq)])

\* second saveDataToSupabase: sortedHistory
SortedHistory(history) ==
    LET all == [i \in 1..Len(history) |->
                  [year |-> history[i].year, ownerName |-> trim(history[i].name),
                   deed |-> history[i].deed]]
        Named(rec) == rec.ownerName # <<>>
    IN  SortByYear(SelectSeq(all, Named))

\* second saveDataToSupabase: the record started at an entry
HistoryRecord(entry, idMap) ==
    [key |-> MapGet(idMap, entry.ownerName), deed |-> entry.deed,
     start_year |-> entry.year, end_year |-> entry.year]

\* second saveDataToSupabase: for (let i = 1; i < sortedHistory.length; i++)
\* with currentRecord, then processedHistory.push(currentRecord); i is
\* 1-based here
RECURSIVE HistoryScan(_, _, _, _, _)
HistoryScan(sorted, idMap, i, currentRecord, acc) ==
    IF i > Len(sorted) THEN Append(acc, currentRecord)
    ELSE IF /\ MapGet(idMap, sorted[i].ownerName) = currentRecord.key
            /\ sorted[i].deed = currentRecord.deed
            /\ sorted[i].year = currentRecord.start_year - 1
         THEN HistoryScan(sorted, idMap, i + 1,
                          [currentRecord EXCEPT !.start_year = sorted[i].year], acc)
         ELSE HistoryScan(sorted, idMap, i + 1, HistoryRecord(sorted[i], idMap),
                          Append(acc, currentRecord))

\* second saveDataToSupabase: processedHistory
ProcessedHistory(history, idMap) ==
    LET sorted == SortedHistory(history)
    IN  IF sorted = <<>> THEN <<>>
        ELSE HistoryScan(sorted, idMap, 2, HistoryRecord(sorted[1], idMap), <<>>)

\* second saveDataToSupabase: currentOwnershipRecords
CurrentOwnershipRecords(current, idMap) ==
    LET Kept(owner) == owner.name # <<>> /\ HasKey(idMap, trim(owner.name))
        kept == SelectSeq(current, Kept)
    IN  [i \in 1..Len(kept) |->
            [key |-> MapGet(idMap, trim(kept[i].name)), deed |-> 0,
             start_year |-> CurrentYear, end_year |-> CurrentYear]]

MaxCurrent == 2

MaxHistory == 3

OwnerKeys ==
    {<<"J","O","H","N"," ","S","M","I","T","H">>,
     <<"J","O","H","N"," ","S","M","I","T","H"," ","&"," ","E","T"," ","A","L">>,
     <<"M","A","R","Y"," ","J","O","N","E","S">>}

Addresses == {"X", "Y"}

OwnerYears == {CurrentYear - 1, CurrentYear}

\* the instrument number and transfer date of a history entry, as one value
Deeds == {1, 2}

CurrentOwnerEntries == [name : OwnerKeys, address : Addresses]

HistoryEntries == [name : OwnerKeys, year : OwnerYears, deed : Deeds]

MaxValues == 2

\* the years of the market-value table; 0 is a year cleanAndParseNumber
\* could not read (null)
ValueYears == OwnerYears \cup {0}

ValueEntries == [year : ValueYears, totalMarketValue : {1, 2}]

\* the value rows an earlier save has left for the property
EarlierValues == <<[year |-> CurrentYear - 1, total_market_value |-> 3]>>

\* marketValueHistory.map(rec => ({ property_account_number, year, total_market_value }))
valueRecords(history) ==
    [i \in 1..Len(history) |->
        [year |-> history[i].year, total_market_value |-> history[i].totalMarketValue]]

\* first saveDataToSupabase: .filter(r => r.year)
WithYear(records) ==
    LET HasYear(r) == r.year # 0 IN SelectSeq(records, HasYear)

-----------------------------------------------------------------------------
(* SpecOwners: saveDataToSupabase, its owners and ownership history, in    *)
(* the two variants of main.ts                                             *)

\* the rows of ownership_history an earlier save has left for the property:
\* an interval of an owner the page no longer shows
EarlierOwnership ==
    <<[key |-> 0, start_year |-> CurrentYear, end_year |-> CurrentYear]>>

OwnersInit ==
    /\ spc = "start"
    /\ currentOwners \in BoundedSeq(CurrentOwnerEntries, MaxCurrent)
    /\ ownershipHistory \in BoundedSeq(HistoryEntries, MaxHistory)
    /\ allOwners = <<>>
    /\ owners = <<>>
    /\ ownerNameToIdMap = <<>>
    /\ ownership_history \in {<<>>, EarlierOwnership}
    /\ marketValueHistory = <<>>
    /\ value_history = <<>>
    /\ TextIdle
    /\ AssessIdle
    /\ FilterIdle
    /\ CompactIdle
    /\ ClerkIdle
    /\ BatchIdle

\* if (allOwners.size === 0) return { error: null }
NoOwners ==
    /\ spc = "start"
    /\ AllOwners(currentOwners, ownershipHistory) = <<>>
    /\ spc' = "noOwners"
    /\ UNCHANGED <<currentOwners, ownershipHistory, allOwners, owners,
                   ownerNameToIdMap, ownership_history, marketValueHistory,
                   value_history, textVars, assessVars, filterVars,
                   compactVars, clerkVars, batchVars>>

\* first saveDataToSupabase: allOwners, the upsert of owners,
\* ownerNameToIdMap, and the ownership history compacted per owner_id
SaveOwnersFirst ==
    /\ spc = "start"
    /\ AllOwners(currentOwners, ownershipHistory) # <<>>
    /\ LET map == AllOwners(currentOwners, ownershipHistory)
           rows == UpsertedOwners(map)
           idMap == NormalizedNameToId(rows)
       IN  /\ allOwners' = map
           /\ owners' = rows
           /\ ownerNameToIdMap' = idMap
           /\ ownership_history' = CompactOwnership(CleanedHistory(ownershipHistory, idMap))
    /\ value_history' = WithYear(valueRecords(marketValueHistory))
    /\ spc' = "savedFirst"
    /\ UNCHANGED <<currentOwners, ownershipHistory, marketValueHistory, textVars, assessVars, filterVars,
                   compactVars, clerkVars, batchVars>>

\* second saveDataToSupabase: allOwners, the upsert of owners,
\* ownerNameToIdMap, the history scanned in year order, and the records of
\* the current owners
SaveOwnersSecond ==
    /\ spc = "start"
    /\ AllOwners(currentOwners, ownershipHistory) # <<>>
    /\ LET map == AllOwners(currentOwners, ownershipHistory)
           rows == UpsertedOwners(map)
           idMap == RawNameToId(rows)
       IN  /\ allOwners' = map
           /\ owners' = rows
           /\ ownerNameToIdMap' = idMap
           /\ ownership_history' =
                 ProcessedHistory(ownershipHistory, idMap)
                    \o CurrentOwnershipRecords(currentOwners, idMap)
    /\ value_history' = valueRecords(marketValueHistory)
    /\ spc' = "savedSecond"
    /\ UNCHANGED <<currentOwners, ownershipHistory, marketValueHistory, textVars, assessVars, filterVars,
                   compactVars, clerkVars, batchVars>>

OwnersNext == NoOwners \/ SaveOwnersFirst \/ SaveOwnersSecond

SpecOwners == OwnersInit /\ [][OwnersNext]_vars

-----------------------------------------------------------------------------
(* SpecValues: saveDataToSupabase and the value history of the property    *)

\* a property with at most one current owner and one history entry, any
\* market-value history, and the value rows an earlier save may have left
ValuesInit ==
    /\ spc = "start"
    /\ currentOwners \in BoundedSeq(CurrentOwnerEntries, 1)
    /\ ownershipHistory \in BoundedSeq(HistoryEntries, 1)
    /\ allOwners = <<>>
    /\ owners = <<>>
    /\ ownerNameToIdMap = <<>>
    /\ ownership_history = <<>>
    /\ marketValueHistory \in BoundedSeq(ValueEntries, MaxValues)
    /\ value_history \in {<<>>, EarlierValues}
    /\ TextIdle
    /\ AssessIdle
    /\ FilterIdle
    /\ CompactIdle
    /\ ClerkIdle
    /\ BatchIdle

SpecValues == ValuesInit /\ [][OwnersNext]_vars

-----------------------------------------------------------------------------
(* SpecAssessment: runDallasAssessmentScraper and its withRetry            *)

\* withRetry(fn, retries = 2, delay = 3000): the default of retries, which
\* both calls use
Retries == 2

\* the error the n-th call of step c rejects with
ErrorOf(c, n) == <<c, n>>

\* withRetry: throw new Error('All retry attempts failed'), in place of the
\* error of the call: a faulty rethrow
AllFailed(c, n) == <<"All retry attempts failed", 0>>

\* withRetry: catch (error) { if (i === retries) throw error; }
Rethrown(c, n) == ErrorOf(c, n)

\* what a step of the scraper can do: resolve or reject
StepOutcomes == {"ok", "failed"}

\* the statements from the click on History to the last extract, in order
HistorySteps == <<"history", "ownershipData", "marketValueData", "exemptionsData">>

\* the position after the call c of withRetry has returned
AfterRetried(c) == IF c = "legalDescriptionData" THEN "mainPageData" ELSE "history"

AssessInit ==
    /\ apc = "start"
    /\ retry = 0
    /\ delayed = FALSE
    /\ fnCalls = [c \in RetriedCalls |-> 0]
    /\ session = "none"
    /\ caught = NoError
    /\ assessmentResult = NULL
    /\ assessmentRaised = FALSE
    /\ TextIdle
    /\ OwnersIdle
    /\ FilterIdle
    /\ CompactIdle
    /\ ClerkIdle
    /\ BatchIdle

\* stagehand = new Stagehand(stagehandConfig()); await stagehand.init();
\* const page = stagehand.page; if (!page) throw ...
InitStagehand ==
    /\ apc = "start"
    /\ session' = "open"
    /\ \E outcome \in StepOutcomes :
         apc' = IF outcome = "ok" THEN "search" ELSE "catch"
    /\ caught' = IF apc' = "catch" THEN ErrorOf(apc, 1) ELSE caught
    /\ UNCHANGED <<retry, delayed, fnCalls, assessmentResult, assessmentRaised,
                   textVars, ownerVars, filterVars, compactVars, clerkVars,
                   batchVars>>

\* page.goto(searchaddr.aspx), the two fields, the Search button
Search ==
    /\ apc = "search"
    /\ \E outcome \in StepOutcomes :
         apc' = IF outcome = "ok" THEN "clickLink" ELSE "catch"
    /\ caught' = IF apc' = "catch" THEN ErrorOf(apc, 1) ELSE caught
    /\ UNCHANGED <<retry, delayed, fnCalls, session, assessmentResult,
                   assessmentRaised, textVars, ownerVars, filterVars,
                   compactVars, clerkVars, batchVars>>

\* try { page.act(first selector) } catch { page.act(second selector) }
ClickLink ==
    /\ apc \in {"clickLink", "clickLinkAlternative"}
    /\ \E outcome \in StepOutcomes :
         apc' = IF outcome = "ok" THEN "waitForURL"
                ELSE IF apc = "clickLink" THEN "clickLinkAlternative"
                ELSE "catch"
    /\ caught' = IF apc' = "catch" THEN ErrorOf(apc, 1) ELSE caught
    /\ UNCHANGED <<retry, delayed, fnCalls, session, assessmentResult,
                   assessmentRaised, textVars, ownerVars, filterVars,
                   compactVars, clerkVars, batchVars>>

\* try { page.waitForURL(...) } catch { href = ...; if (href) { page.goto(...);
\* page.waitForLoadState(...) } }; page.url(); page.waitForTimeout(5000)
WaitForURL ==
    /\ apc = "waitForURL"
    /\ \E outcome \in {"ok", "fallback", "fallback failed"} :
         apc' = IF outcome = "fallback failed" THEN "catch"
                ELSE "legalDescriptionData"
    /\ caught' = IF apc' = "catch" THEN ErrorOf(apc, 1) ELSE caught
    /\ UNCHANGED <<retry, delayed, fnCalls, session, assessmentResult,
                   assessmentRaised, textVars, ownerVars, filterVars,
                   compactVars, clerkVars, batchVars>>

\* withRetry: for (let i = 0; i <= retries; i++) { try { return await fn(); }
\* catch (error) { if (i === retries) throw error; ... } }
WithRetryCall ==
    /\ apc \in RetriedCalls
    /\ ~delayed
    /\ fnCalls' = [fnCalls EXCEPT ![apc] = @ + 1]
    /\ \E outcome \in StepOutcomes :
         IF outcome = "ok"
         THEN /\ apc' = AfterRetried(apc)
              /\ retry' = 0
              /\ delayed' = FALSE
         ELSE IF retry = Retries
         THEN /\ apc' = "catch"
              /\ retry' = 0
              /\ delayed' = FALSE
         ELSE /\ apc' = apc
              /\ retry' = retry
              /\ delayed' = TRUE
    /\ caught' = IF apc' = "catch" THEN Rethrown(apc, fnCalls'[apc]) ELSE caught
    /\ UNCHANGED <<session, assessmentResult, assessmentRaised, textVars,
                   ownerVars, filterVars, compactVars, clerkVars, batchVars>>

\* withRetry: await new Promise(resolve => setTimeout(resolve, delay)); i++
WithRetryDelay ==
    /\ apc \in RetriedCalls
    /\ delayed
    /\ delayed' = FALSE
    /\ retry' = retry + 1
    /\ UNCHANGED <<caught, apc, fnCalls, session, assessmentResult, assessmentRaised,
                   textVars, ownerVars, filterVars, compactVars, clerkVars,
                   batchVars>>

\* page.act(click the History link), then the three extracts of the history
\* page; return { success: true, data: ... }
History ==
    /\ \E k \in 1..Len(HistorySteps) :
         /\ apc = HistorySteps[k]
         /\ \E outcome \in StepOutcomes :
              IF outcome = "failed"
              THEN /\ apc' = "catch"
                   /\ assessmentResult' = assessmentResult
              ELSE IF k < Len(HistorySteps)
              THEN /\ apc' = HistorySteps[k + 1]
                   /\ assessmentResult' = assessmentResult
              ELSE /\ apc' = "finally"
                   /\ assessmentResult' = [success |-> TRUE]
    /\ caught' = IF apc' = "catch" THEN ErrorOf(apc, 1) ELSE caught
    /\ UNCHANGED <<retry, delayed, fnCalls, session, assessmentRaised, textVars,
                   ownerVars, filterVars, compactVars, clerkVars, batchVars>>

\* catch (error) { return { success: false, error: error.message } }
AssessCatch ==
    /\ apc = "catch"
    /\ assessmentResult' = [success |-> FALSE, error |-> caught]
    /\ apc' = "finally"
    /\ UNCHANGED <<caught, retry, delayed, fnCalls, session, assessmentRaised, textVars,
                   ownerVars, filterVars, compactVars, clerkVars, batchVars>>

\* finally { if (stagehand) await stagehand.close() }: a rejection of close()
\* replaces the value returned
AssessFinally ==
    /\ apc = "finally"
    /\ session' = "closed"
    /\ \E outcome \in StepOutcomes :
         /\ assessmentRaised' = (outcome = "failed")
         /\ assessmentResult' = IF outcome = "failed" THEN NULL ELSE assessmentResult
    /\ apc' = "returned"
    /\ UNCHANGED <<caught, retry, delayed, fnCalls, textVars, ownerVars, filterVars,
                   compactVars, clerkVars, batchVars>>

AssessNext ==
    \/ InitStagehand
    \/ Search
    \/ ClickLink
    \/ WaitForURL
    \/ WithRetryCall
    \/ WithRetryDelay
    \/ History
    \/ AssessCatch
    \/ AssessFinally

SpecAssessment == AssessInit /\ [][AssessNext]_vars

-----------------------------------------------------------------------------
(* SpecFilter: the two filters applied to a listing                        *)

FilterInit ==
    /\ fpc = "start"
    /\ fDocuments \in BoundedSeq(FilterEntries, MaxListing)
    /\ fTarget \in FilterTargets
    /\ fFiltered = <<>>
    /\ fPersisted = <<>>
    /\ CompactIdle
    /\ DataIdle
    /\ ClerkIdle
    /\ BatchIdle

\* runClerkScraper: const filteredDocuments = documents.filter(...)
ClerkFilter ==
    /\ fpc = "start"
    /\ fFiltered' = FilterDocuments(fDocuments, fTarget)
    /\ fpc' = "filtered"
    /\ UNCHANGED <<fDocuments, fTarget, fPersisted, compactVars, dataVars, clerkVars, batchVars>>

\* second runAllScrapers: const filteredDocuments =
\* clerkResult.data.documents.filter(...), the documents then saved
OrchestratorFilter ==
    /\ fpc = "start"
    /\ fPersisted' = FilterDocumentsBySubdivision(fDocuments, fTarget)
    /\ fpc' = "persisted"
    /\ UNCHANGED <<fDocuments, fTarget, fFiltered, compactVars, dataVars, clerkVars, batchVars>>

FilterNext == ClerkFilter \/ OrchestratorFilter

SpecFilter == FilterInit /\ [][FilterNext]_vars

-----------------------------------------------------------------------------
(* SpecCompact: the two compaction loops applied to a list of observations *)

CompactInit ==
    /\ cpc = "start"
    /\ cInput \in BoundedSeq(Observations, MaxObs) \cup {ExampleObservations}
    /\ recordsToInsert = <<>>
    /\ FilterIdle
    /\ DataIdle
    /\ ClerkIdle
    /\ BatchIdle

\* saveDataToSupabase: if (exemptions?.length > 0) { ... recordsToInsert ... }
SaveExemptions ==
    /\ cpc = "start"
    /\ recordsToInsert' = CompactExemptions(cInput)
    /\ cpc' = "exemptions"
    /\ UNCHANGED <<cInput, filterVars, dataVars, clerkVars, batchVars>>

\* saveDataToSupabase: if (ownershipHistory?.length > 0) { ... recordsToInsert ... }
SaveOwnership ==
    /\ cpc = "start"
    /\ recordsToInsert' = CompactOwnership(cInput)
    /\ cpc' = "ownership"
    /\ UNCHANGED <<cInput, filterVars, dataVars, clerkVars, batchVars>>

\* second saveDataToSupabase: if (exemptions?.length > 0) { ... }
SaveExemptionsSecond ==
    /\ cpc = "start"
    /\ recordsToInsert' = CompactExemptionsSecond(cInput)
    /\ cpc' = "exemptionsSecond"
    /\ UNCHANGED <<cInput, filterVars, dataVars, clerkVars, batchVars>>

CompactNext == SaveExemptions \/ SaveOwnership \/ SaveExemptionsSecond

SpecCompact == CompactInit /\ [][CompactNext]_vars

-----------------------------------------------------------------------------
(* runClerkScraper, step by step. The steps of clerk-scraper.ts and of the *)
(* variant of README.md are the same except where an action names the      *)
(* variant.                                                                *)

NoResult == [success |-> FALSE, data |-> <<>>, error |-> NULL]

\* return { success: true, data }
Success(data) == [success |-> TRUE, data |-> data, error |-> NULL]

\* a return that reports an error as a success without records: a faulty
\* return
EmptySuccess(message) == [success |-> TRUE, data |-> <<>>, error |-> message]

\* return { success: false, error: error.message }
Failure(message) == [success |-> FALSE, data |-> <<>>, error |-> message]

\* an awaited call raises an error with this message
Throws(message, handler) ==
    /\ err' = message
    /\ lost' = (lost \/ isClosedErr(message))
    /\ pc' = handler

\* the environment spends one of its faults on a page operation that fails
\* on a session that is not closed
PageFault(outcome) ==
    faults' = IF outcome # "ok" /\ ~lost THEN faults + 1 ELSE faults

\* the environment spends one of its faults on a call that fails
CallFault(ok) == faults' = IF ok THEN faults ELSE faults + 1

\* the top of the for loop over filteredDocuments
DocStart(i) ==
    /\ index' = i
    /\ attempt' = 1
    /\ summary' = InitialSummary
    /\ documentUrl' = NullUrl
    /\ pageCount' = 0
    /\ pageNo' = 0
    /\ images' = <<>>
    /\ extractedText' = NULL
    /\ calls' = NoCalls
    /\ docLog' = Append(docLog, NewDocLog)
    /\ pc' = "open"

\* the handler an error of the document steps reaches: the catch clause of
\* the document, or the enclosing one during a recovery
DocHandler == "catch"

\* stagehand = new Stagehand(stagehandConfig()); await stagehand.init()
InitSession ==
    /\ pc = "start"
    /\ stagehand' = 1
    /\ closeCalls' = <<0>>
    /\ \E ok \in CallOutcomes :
         /\ CallFault(ok)
         /\ IF ok
            THEN /\ openSessions' = {1}
                 /\ pc' = "goto"
                 /\ err' = err
            ELSE /\ openSessions' = {}
                 /\ pc' = "outerCatch"
                 /\ err' = TimeoutMessage
    /\ UNCHANGED <<inputVars, propagating, result, raised, stagehandClosed,
                   lost, browserVars, listVars, docVars, captureVars,
                   processedDocs, historyVars, batchVars, filterVars, dataVars,
                   compactVars>>

\* await page.goto(searchUrl, ...)
Goto ==
    /\ pc = "goto"
    /\ gotoLog' = Append(gotoLog, SearchUrl(targetLegal))
    /\ \E outcome \in PageOutcomes :
         /\ PageFault(outcome)
         /\ IF outcome = "ok"
            THEN /\ page' = ListingPage
                 /\ pc' = "waitListing"
                 /\ UNCHANGED <<err, lost>>
            ELSE /\ Throws(outcome, "outerCatch")
                 /\ page' = page
    /\ UNCHANGED <<inputVars, propagating, result, raised, stagehand,
                   stagehandClosed, openSessions, closeCalls, table,
                   listVars, docVars, captureVars, processedDocs, calls,
                   docLog, batchVars, filterVars, dataVars, compactVars>>

\* await page.waitForSelector('table tbody tr', ...): a row appears only if
\* the site lists one
WaitListing ==
    /\ pc = "waitListing"
    /\ \E outcome \in PageOutcomes :
         /\ PageFault(outcome)
         /\ IF outcome = "ok" /\ siteListing # <<>>
            THEN /\ table' = siteListing
                 /\ pc' = "extract"
                 /\ UNCHANGED <<err, lost>>
            ELSE /\ Throws(IF outcome = "ok" THEN TimeoutMessage ELSE outcome, "outerCatch")
                 /\ table' = table
    /\ UNCHANGED <<inputVars, propagating, result, raised, stagehand,
                   stagehandClosed, openSessions, closeCalls, page, listVars,
                   docVars, captureVars, processedDocs, historyVars,
                   batchVars, filterVars, dataVars, compactVars>>

\* const { documents } = await page.extract(...); const filteredDocuments =
\* documents.filter(...); if (filteredDocuments.length === 0) return ...
Extract ==
    /\ pc = "extract"
    /\ \E outcome \in PageOutcomes :
         /\ PageFault(outcome)
         /\ IF outcome = "ok"
            THEN LET filtered == FilterDocuments(table, targetLegal)
                 IN  /\ documents' = table
                     /\ filteredDocuments' = filtered
                     /\ UNCHANGED <<err, lost>>
                     /\ IF filtered = <<>>
                        THEN /\ result' = Success(<<>>)
                             /\ pc' = "close"
                             /\ UNCHANGED <<docVars, captureVars, calls, docLog>>
                        ELSE /\ DocStart(1)
                             /\ result' = result
            ELSE /\ Throws(outcome, "outerCatch")
                 /\ UNCHANGED <<documents, filteredDocuments, result, docVars,
                                captureVars, calls, docLog>>
    /\ UNCHANGED <<inputVars, propagating, raised, stagehand,
                   stagehandClosed, openSessions, closeCalls, browserVars,
                   processedDocs, gotoLog, batchVars, filterVars, dataVars,
                   compactVars>>

\* const originalIndex = documents.findIndex(...);
\* await page.locator(`table tbody tr:nth-child(${originalIndex + 1})`).click()
Open ==
    /\ pc = "open"
    /\ docLog' = [docLog EXCEPT ![Len(docLog)].attempts = @ + 1]
    /\ LET doc == filteredDocuments[index]
           originalIndex == FindIndex(documents, doc)
           rowShown == page.at = "listing" /\ originalIndex \in 1..Len(table)
       IN  \E outcome \in PageOutcomes :
             /\ PageFault(outcome)
             /\ IF outcome = "ok" /\ rowShown
                THEN /\ page' = ViewerPage(table[originalIndex].doc_id)
                     /\ calls' = [calls EXCEPT !.open = @ + 1]
                     /\ pc' = "waitViewer"
                     /\ UNCHANGED <<err, lost>>
                ELSE /\ Throws(IF outcome = "ok" THEN TimeoutMessage ELSE outcome, DocHandler)
                     /\ UNCHANGED <<page, calls>>
    /\ UNCHANGED <<inputVars, propagating, result, raised, stagehand,
                   stagehandClosed, openSessions, closeCalls, table,
                   listVars, docVars, captureVars, processedDocs, gotoLog,
                   batchVars, filterVars, dataVars, compactVars>>

\* await page.waitForSelector('svg image', ...); documentUrl = page.url()
WaitViewer ==
    /\ pc = "waitViewer"
    /\ \E outcome \in PageOutcomes :
         /\ PageFault(outcome)
         /\ IF outcome = "ok"
            THEN /\ documentUrl' = UrlOf(page.doc)
                 /\ pc' = "pageCount"
                 /\ UNCHANGED <<err, lost>>
            ELSE /\ Throws(outcome, DocHandler)
                 /\ documentUrl' = documentUrl
    /\ UNCHANGED <<inputVars, propagating, result, raised, stagehand,
                   stagehandClosed, openSessions, closeCalls, browserVars,
                   listVars, index, attempt, summary, captureVars,
                   processedDocs, historyVars, batchVars, filterVars, dataVars,
                   compactVars>>

\* z.number().default(1)
DefaultPageCount == 1

\* images that are those of the attempt before: a faulty start of the loop
KeptImages == images

\* const images = [], local to the attempt
FreshImages == <<>>

\* const { pageCount } = await page.extract(...); const images = [];
\* for (let i = 1; i <= pageCount; i++): the extracted number is whatever the
\* extraction answers, 0 included (then no page is captured); an answer
\* without the number gets the default of the schema; a wrong answer and a
\* missing one count as faults of the environment
PageCount ==
    /\ pc = "pageCount"
    /\ \E outcome \in PageOutcomes
                      \cup (IF MayFail /\ ~lost THEN {"zero", "absent"} ELSE {}) :
         /\ PageFault(IF outcome \in {"zero", "absent"} THEN TimeoutMessage
                      ELSE outcome)
         /\ IF outcome \in {"ok", "absent"}
            THEN /\ \E n \in 1..MaxPages :
                      /\ outcome = "absent" => n = DefaultPageCount
                      /\ pageCount' = n
                 /\ pageNo' = 1
                 /\ images' = FreshImages
                 /\ pc' = "screenshot"
                 /\ UNCHANGED <<err, lost>>
            ELSE IF outcome = "zero"
            THEN /\ pageCount' = 0
                 /\ pageNo' = 1
                 /\ images' = FreshImages
                 /\ pc' = "ocr"
                 /\ UNCHANGED <<err, lost>>
            ELSE /\ Throws(outcome, DocHandler)
                 /\ UNCHANGED <<pageCount, pageNo, images>>
    /\ UNCHANGED <<inputVars, propagating, result, raised, stagehand,
                   stagehandClosed, openSessions, closeCalls, browserVars,
                   listVars, docVars, extractedText, processedDocs,
                   historyVars, batchVars, filterVars, dataVars, compactVars>>

\* const imgBuffer = await page.screenshot(...); images.push(...)
Screenshot ==
    /\ pc = "screenshot"
    /\ \E outcome \in PageOutcomes :
         /\ PageFault(outcome)
         /\ IF outcome = "ok"
            THEN /\ images' = Append(images, [doc |-> page.doc, no |-> page.no])
                 /\ pc' = IF pageNo < pageCount THEN "nextPage" ELSE "ocr"
                 /\ UNCHANGED <<err, lost>>
            ELSE /\ Throws(outcome, DocHandler)
                 /\ images' = images
    /\ UNCHANGED <<inputVars, propagating, result, raised, stagehand,
                   stagehandClosed, openSessions, closeCalls, browserVars,
                   listVars, docVars, pageCount, pageNo, extractedText,
                   processedDocs, historyVars, batchVars, filterVars, dataVars,
                   compactVars>>

\* if (i < pageCount) { await nextPageButton.click(); await sleep(1000); }
NextPage ==
    /\ pc = "nextPage"
    /\ \E outcome \in PageOutcomes :
         /\ PageFault(outcome)
         /\ IF outcome = "ok"
            THEN /\ page' = [page EXCEPT !.no = @ + 1]
                 /\ pageNo' = pageNo + 1
                 /\ pc' = "screenshot"
                 /\ UNCHANGED <<err, lost>>
            ELSE /\ Throws(outcome, DocHandler)
                 /\ UNCHANGED <<page, pageNo>>
    /\ UNCHANGED <<inputVars, propagating, result, raised, stagehand,
                   stagehandClosed, openSessions, closeCalls, table,
                   listVars, docVars, pageCount, images, extractedText,
                   processedDocs, historyVars, batchVars, filterVars, dataVars,
                   compactVars>>

\* const extractedText = await getTextFromImages(images)
OcrWith(response) ==
    /\ pc = "ocr"
    /\ CallFault(response = "text")
    /\ extractedText' = getTextFromImages(images, response)
    /\ calls' = [calls EXCEPT !.ocr = @ + 1]
    /\ pc' = "summarize"
    /\ UNCHANGED <<inputVars, err, propagating, result, raised, sessionVars,
                   browserVars, listVars, docVars, pageCount, pageNo, images,
                   processedDocs, docLog, gotoLog, batchVars, filterVars, dataVars,
                   compactVars>>

Ocr == \E response \in ApiOutcomes : OcrWith(response)

\* summary = await summarizeDocumentText(extractedText)
SummarizeWith(response) ==
    /\ pc = "summarize"
    /\ calls' = [calls EXCEPT !.summarize = @ + 1]
    /\ LET r == summarizeDocumentText(extractedText, response)
       IN  /\ CallFault(response = "text")
           /\ IF r.threw
              THEN /\ Throws(r.value, DocHandler)
                   /\ UNCHANGED <<summary, docLog>>
              ELSE /\ summary' = r.value
                   /\ docLog' = [docLog EXCEPT ![Len(docLog)].completed = TRUE]
                   /\ pc' = "docFinally"
                   /\ UNCHANGED <<err, lost>>
    /\ UNCHANGED <<inputVars, propagating, result, raised, stagehand,
                   stagehandClosed, openSessions, closeCalls, browserVars,
                   listVars, index, attempt, documentUrl, captureVars,
                   processedDocs, gotoLog, batchVars, filterVars, dataVars,
                   compactVars>>

Summarize == \E response \in ApiOutcomes : SummarizeWith(response)

\* clerk-scraper.ts: catch (e) { console.error(...) }
Catch ==
    /\ pc = "catch"
    /\ variant = "ts"
    /\ docLog' = [docLog EXCEPT ![Len(docLog)].lostFirst = isClosedErr(err)]
    /\ err' = NULL
    /\ pc' = "docFinally"
    /\ UNCHANGED <<inputVars, propagating, result, raised, sessionVars,
                   browserVars, listVars, docVars, captureVars,
                   processedDocs, calls, gotoLog, faults, batchVars,
                   filterVars, dataVars, compactVars>>

\* README.md: catch (e) { ... if (isClosedErr(e)) { recovery } } for the first
\* processOnce, catch (e2) { console.error(...) } for the second
CatchReadme ==
    /\ pc = "catch"
    /\ variant = "readme"
    /\ err' = NULL
    /\ IF attempt = 1
       THEN /\ docLog' = [docLog EXCEPT ![Len(docLog)].lostFirst = isClosedErr(err)]
            /\ pc' = IF isClosedErr(err) THEN "recoverClose" ELSE "docFinally"
       ELSE /\ docLog' = docLog
            /\ pc' = "docFinally"
    /\ UNCHANGED <<inputVars, propagating, result, raised, sessionVars,
                   browserVars, listVars, docVars, captureVars,
                   processedDocs, calls, gotoLog, faults, batchVars,
                   filterVars, dataVars, compactVars>>

\* README.md: await safeClose()
RecoverClose ==
    /\ pc = "recoverClose"
    /\ docLog' = [docLog EXCEPT ![Len(docLog)].recoveries = @ + 1]
    /\ IF stagehandClosed
       THEN UNCHANGED <<stagehandClosed, closeCalls, openSessions>>
       ELSE /\ stagehandClosed' = TRUE
            /\ closeCalls' = [closeCalls EXCEPT ![stagehand] = @ + 1]
            /\ openSessions' = Discard(openSessions, stagehand)
    /\ pc' = "recoverInit"
    /\ UNCHANGED <<inputVars, err, propagating, result, raised, stagehand,
                   lost, browserVars, listVars, docVars, captureVars,
                   processedDocs, calls, gotoLog, faults, batchVars,
                   filterVars, dataVars, compactVars>>

\* README.md: stagehand = new Stagehand(...); await stagehand.init();
\* stagehandClosed = false; page = stagehand.page
RecoverInit ==
    /\ pc = "recoverInit"
    /\ stagehand' = stagehand + 1
    /\ closeCalls' = Append(closeCalls, 0)
    /\ \E ok \in CallOutcomes :
         /\ CallFault(ok)
         /\ IF ok
            THEN /\ openSessions' = openSessions \cup {stagehand + 1}
                 /\ stagehandClosed' = NewSessionFlag
                 /\ lost' = FALSE
                 /\ page' = BlankPage
                 /\ table' = <<>>
                 /\ pc' = "recoverGoto"
                 /\ UNCHANGED <<err, propagating>>
            ELSE /\ err' = TimeoutMessage
                 /\ propagating' = TRUE
                 /\ pc' = "docFinally"
                 /\ UNCHANGED <<openSessions, stagehandClosed, lost, page, table>>
    /\ UNCHANGED <<inputVars, result, raised, listVars, docVars, captureVars,
                   processedDocs, historyVars, batchVars, filterVars, dataVars,
                   compactVars>>

\* README.md: await page.goto(searchUrl, ...) of the recovery
RecoverGoto ==
    /\ pc = "recoverGoto"
    /\ gotoLog' = Append(gotoLog, SearchUrl(targetLegal))
    /\ \E outcome \in PageOutcomes :
         /\ PageFault(outcome)
         /\ IF outcome = "ok"
            THEN /\ page' = ListingPage
                 /\ pc' = "recoverWait"
                 /\ UNCHANGED <<err, lost, propagating>>
            ELSE /\ Throws(outcome, "docFinally")
                 /\ propagating' = TRUE
                 /\ page' = page
    /\ UNCHANGED <<inputVars, result, raised, stagehand, stagehandClosed,
                   openSessions, closeCalls, table, listVars, docVars,
                   captureVars, processedDocs, calls, docLog, batchVars,
                   filterVars, dataVars, compactVars>>

\* README.md: await page.waitForSelector('table tbody tr', ...) of the
\* recovery, then try { await processOnce() }
RecoverWait ==
    /\ pc = "recoverWait"
    /\ \E outcome \in PageOutcomes :
         /\ PageFault(outcome)
         /\ IF outcome = "ok"
            THEN /\ \E rows \in Replays(siteListing) : table' = rows
                 /\ attempt' = RetryAttempt
                 /\ calls' = NoCalls
                 /\ pc' = "open"
                 /\ UNCHANGED <<err, lost, propagating>>
            ELSE /\ Throws(outcome, "docFinally")
                 /\ propagating' = TRUE
                 /\ UNCHANGED <<table, attempt, calls>>
    /\ UNCHANGED <<inputVars, result, raised, stagehand, stagehandClosed,
                   openSessions, closeCalls, page, listVars, index, summary,
                   documentUrl, captureVars, processedDocs, docLog, gotoLog,
                   batchVars, filterVars, dataVars, compactVars>>

\* finally { processedDocs.push({ ...doc, summary, documentUrl }); ... }; after
\* the last document: return { success: true, data: processedDocs }
DocFinally ==
    /\ pc = "docFinally"
    /\ processedDocs' =
         Push(processedDocs, filteredDocuments[index], summary, documentUrl)
    /\ IF index < Len(filteredDocuments)
       THEN /\ pc' = "goBack"
            /\ result' = result
       ELSE IF propagating
       THEN /\ pc' = "outerCatch"
            /\ result' = result
       ELSE /\ pc' = "close"
            /\ result' = Success(processedDocs')
    /\ UNCHANGED <<inputVars, err, propagating, raised, sessionVars,
                   browserVars, listVars, docVars, captureVars, historyVars,
                   faults, batchVars, filterVars, dataVars, compactVars>>

\* clerk-scraper.ts: if (index < filteredDocuments.length - 1) {
\*   await page.goBack(...); await sleep(...) }
GoBack ==
    /\ pc = "goBack"
    /\ variant = "ts"
    /\ \E outcome \in PageOutcomes :
         /\ PageFault(outcome)
         /\ IF outcome = "ok"
            THEN /\ page' = Back(page)
                 /\ DocStart(index + 1)
                 /\ UNCHANGED <<err, lost>>
            ELSE /\ Throws(outcome, "outerCatch")
                 /\ UNCHANGED <<page, docVars, captureVars, calls, docLog>>
    /\ UNCHANGED <<inputVars, propagating, result, raised, stagehand,
                   stagehandClosed, openSessions, closeCalls, table,
                   listVars, processedDocs, gotoLog, batchVars, filterVars, dataVars,
                   compactVars>>

\* README.md: if (index < filteredDocuments.length - 1) {
\*   try { await page.goBack(...) } catch {}; await sleep(...) }
GoBackReadme ==
    /\ pc = "goBack"
    /\ variant = "readme"
    /\ \E outcome \in PageOutcomes :
         /\ PageFault(outcome)
         /\ page' = IF outcome = "ok" THEN Back(page) ELSE page
         /\ lost' = (lost \/ isClosedErr(outcome))
    /\ IF propagating
       THEN /\ pc' = "outerCatch"
            /\ UNCHANGED <<docVars, captureVars, calls, docLog>>
       ELSE DocStart(index + 1)
    /\ UNCHANGED <<inputVars, err, propagating, result, raised, stagehand,
                   stagehandClosed, openSessions, closeCalls, table,
                   listVars, processedDocs, gotoLog, batchVars, filterVars, dataVars,
                   compactVars>>

\* catch (error) { return { success: false, error: error.message } }
OuterCatch ==
    /\ pc = "outerCatch"
    /\ result' = Failure(err)
    /\ err' = NULL
    /\ propagating' = FALSE
    /\ pc' = "close"
    /\ UNCHANGED <<inputVars, raised, sessionVars, browserVars, listVars,
                   docVars, captureVars, processedDocs, historyVars, faults,
                   batchVars, filterVars, dataVars, compactVars>>

\* clerk-scraper.ts: finally { if (stagehand) await stagehand.close() }
Close ==
    /\ pc = "close"
    /\ variant = "ts"
    /\ closeCalls' = [closeCalls EXCEPT ![stagehand] = @ + 1]
    /\ openSessions' = Discard(openSessions, stagehand)
    /\ \E ok \in CallOutcomes :
         /\ CallFault(ok)
         /\ raised' = ~ok
         /\ result' = IF ok THEN result ELSE NoResult
    /\ pc' = "done"
    /\ UNCHANGED <<inputVars, err, propagating, stagehand, stagehandClosed,
                   lost, browserVars, listVars, docVars, captureVars,
                   processedDocs, historyVars, batchVars, filterVars, dataVars,
                   compactVars>>

\* README.md: finally { await safeClose() }
CloseReadme ==
    /\ pc = "close"
    /\ variant = "readme"
    /\ IF stagehandClosed
       THEN UNCHANGED <<stagehandClosed, closeCalls, openSessions>>
       ELSE /\ stagehandClosed' = TRUE
            /\ closeCalls' = [closeCalls EXCEPT ![stagehand] = @ + 1]
            /\ openSessions' = Discard(openSessions, stagehand)
    /\ pc' = "done"
    /\ UNCHANGED <<inputVars, err, propagating, result, raised, stagehand,
                   lost, browserVars, listVars, docVars, captureVars,
                   processedDocs, historyVars, faults, batchVars, filterVars, dataVars,
                   compactVars>>

ClerkNext ==
    \/ InitSession \/ Goto \/ WaitListing \/ Extract
    \/ Open \/ WaitViewer \/ PageCount \/ Screenshot \/ NextPage
    \/ Ocr \/ Summarize
    \/ Catch \/ CatchReadme
    \/ RecoverClose \/ RecoverInit \/ RecoverGoto \/ RecoverWait
    \/ DocFinally \/ GoBack \/ GoBackReadme
    \/ OuterCatch \/ Close \/ CloseReadme

\* one call of runClerkScraper
Init ==
    /\ variant \in {"ts", "readme"}
    /\ targetLegal \in ClerkTargets
    /\ siteListing \in Listings(MaxDocs)
    /\ pc = "start"
    /\ ClerkReset
    /\ faults = 0
    /\ BatchIdle
    /\ FilterIdle
    /\ DataIdle
    /\ CompactIdle

Next == ClerkNext

Spec == Init /\ [][Next]_vars

\* every awaited call returns or raises in finite time: a run that can take
\* a step takes one
SpecFair == Init /\ [][Next]_vars /\ WF_vars(Next)

-----------------------------------------------------------------------------
(* runAllScrapers (main.ts, first variant), one property after the other   *)

\* assessmentResult.data.legalDescription in a run of the batch: a complete
\* description, one without a lot, one without a block, one that starts with
\* its block (no subdivision before it), and an empty one
BatchDescriptions ==
    {<<"O","A","K","\n","B","L","K"," ","1","2","\n","L","T"," ","3">>,
     <<"O","A","K","\n","B","L","K"," ","1","2">>,
     <<"O","A","K","\n","L","T"," ","3">>,
     <<"B","L","K"," ","1","2","\n","L","T"," ","3">>,
     <<>>}

\* parsedLegal[field] as the orchestrator reads it: the text, the empty text
\* when the field is null or not there
LegalField(parsed, field) ==
    IF field \in DOMAIN parsed THEN parsed[field].text ELSE <<>>

\* the parsed legal descriptions of a run of the batch
ParsedLegals ==
    {LET parsed == parseLegalDescription([kind |-> "text", text |-> description])
     IN  [subdivision |-> LegalField(parsed, "subdivision"),
          block |-> LegalField(parsed, "block"),
          city_block |-> NULL,
          lot1 |-> LegalField(parsed, "lot1")] :
        description \in BatchDescriptions}

\* a test that never finds a field missing: a faulty skip
NeverMissing(field) == FALSE

\* !field: the field is null, not there or empty
Missing(field) == field = <<>>

\* the listings the site shows in a run of the batch
BatchListings ==
    {l \in Listings(2) :
        \/ \A i \in 1..Len(l) :
              /\ l[i].legal_description = MatchingText
              /\ l[i].instrument_number = (IF i = 1 THEN "A" ELSE "B")
        \/ Len(l) = 1 /\ l[1].legal_description = OtherText}

\* the fields of a record the orchestrator keeps in its log
StageEntry(p, outcome, unavailable, saved) ==
    [property |-> p, outcome |-> outcome, unavailable |-> unavailable,
     saved |-> saved]

\* documents.map(doc => ({ property_account_number: accountNumber, ... }))
DocumentRecords(accountNumber, docs) ==
    [i \in 1..Len(docs) |->
        [property_account_number |-> accountNumber,
         instrument_number |-> docs[i].instrument_number,
         summary |-> docs[i].summary,
         document_url |-> docs[i].documentUrl]]

\* the rows of property_documents an earlier run of the batch has left for
\* the property: those of a document the listing no longer shows
EarlierDocuments(accountNumber) ==
    DocumentRecords(accountNumber,
        <<[instrument_number |-> "Z",
           summary |-> GeneratedSummary(DocumentText),
           documentUrl |-> UrlOf(MaxDocs)]>>)

\* the listing of the run never appeared: page.waitForSelector('table tbody tr')
\* of the initial search failed
ListingUnavailable ==
    /\ pc \in {"outerCatch", "close", "done"}
    /\ page.at = "listing"
    /\ table = <<>>
    /\ documents = <<>>

\* the variables of runClerkScraper at a call of it (pc "start") and after
\* the caller has taken its result (pc "idle")
ClerkAssign(v, target, listing, at) ==
    /\ variant' = v
    /\ targetLegal' = target
    /\ siteListing' = listing
    /\ pc' = at
    /\ err' = NULL
    /\ propagating' = FALSE
    /\ result' = [success |-> FALSE, data |-> <<>>, error |-> NULL]
    /\ raised' = FALSE
    /\ stagehand' = 0
    /\ stagehandClosed' = FALSE
    /\ openSessions' = {}
    /\ closeCalls' = <<>>
    /\ lost' = FALSE
    /\ page' = BlankPage
    /\ table' = <<>>
    /\ documents' = <<>>
    /\ filteredDocuments' = <<>>
    /\ processedDocs' = <<>>
    /\ index' = 0
    /\ attempt' = 0
    /\ summary' = NULL
    /\ documentUrl' = NullUrl
    /\ pageCount' = 0
    /\ pageNo' = 0
    /\ images' = <<>>
    /\ extractedText' = NULL
    /\ calls' = NoCalls
    /\ docLog' = <<>>
    /\ gotoLog' = <<>>
    /\ faults' = 0

\* a loop that ends at the first property whose assessment fails: a faulty
\* handling of the failure
AbortBatch == "finished"

\* continue, and the end of the catch clause inside the loop: the loop goes
\* on with its next property
NextIteration == "next"

\* for (const property of propertiesToScrape) { try { const assessmentResult =
\*   await runDallasAssessmentScraper(...); if (!assessmentResult.success ...)
\*   continue; const parsedLegal = parseLegalDescription(...)
StartProperty ==
    /\ opc = "next"
    /\ property < BatchSize
    /\ property' = property + 1
    /\ \E assessment \in {"ok", "failed", "threw"} :
         IF assessment = "ok"
         THEN /\ \E legal \in ParsedLegals : parsedLegal' = legal
              /\ opc' = "save"
              /\ stages' = stages
         ELSE /\ parsedLegal' = NULL
              /\ opc' = NextIteration
              /\ stages' = Append(stages,
                    StageEntry(property + 1,
                               IF assessment = "failed" THEN "assessment failed"
                               ELSE "critical error", FALSE, 0))
    /\ UNCHANGED <<inputVars, flowVars, sessionVars, browserVars, listVars,
                   docVars, captureVars, processedDocs, historyVars, faults,
                   property_documents, filterVars, dataVars, compactVars>>

\* the two variants of saveDataToSupabase in main.ts
SaveVariants == {"first", "second"}

\* the persistence operations of saveDataToSupabase
ScopedDeletes ==
    {"ownership_history delete", "value_history delete", "exemptions delete"}

RowInserts ==
    {"ownership_history insert", "value_history insert", "exemptions insert"}

PersistenceOps == {"properties upsert", "owners upsert"} \cup ScopedDeletes \cup RowInserts

\* saveDataToSupabase returns { error } for the operation that failed: the
\* two upserts are tested in both variants, the deletes in none, the inserts
\* in the second variant only
SaveReports(sv, op) ==
    IF op \in {"properties upsert", "owners upsert"} THEN TRUE
    ELSE IF op \in ScopedDeletes THEN FALSE
    ELSE sv = "second"

\* what can go wrong in a call of saveDataToSupabase: nothing, one of its
\* operations resolves with an error, or the call rejects
SaveFaults == {"none", "threw"} \cup PersistenceOps

\* what the orchestrator gets from the call
SaveOutcome(sv, fault) ==
    IF fault = "none" THEN "ok"
    ELSE IF fault = "threw" THEN "threw"
    ELSE IF SaveReports(sv, fault) THEN "error"
    ELSE "ok"

\* const { error: saveError } = await saveDataToSupabase(...); if (saveError)
\* continue; if (!parsedLegal.subdivision || !parsedLegal.block ||
\* !parsedLegal.lot1) continue; const clerkResult = await runClerkScraper({...})
\* for the variant sv of saveDataToSupabase and the fault of the call
SaveAssessmentWith(sv, fault) ==
    /\ opc = "save"
    /\ LET saved == SaveOutcome(sv, fault)
       IN
         IF saved # "ok"
         THEN /\ stages' = Append(stages,
                    StageEntry(property,
                               IF saved = "error" THEN "save failed"
                               ELSE "critical error", FALSE, 0))
              /\ opc' = NextIteration
              /\ UNCHANGED clerkVars
         ELSE IF \/ Missing(parsedLegal.subdivision)
                 \/ Missing(parsedLegal.block)
                 \/ Missing(parsedLegal.lot1)
         THEN /\ stages' = Append(stages, StageEntry(property, "skipped", FALSE, 0))
              /\ opc' = NextIteration
              /\ UNCHANGED clerkVars
         ELSE /\ stages' = stages
              /\ opc' = "clerk"
              /\ \E v \in {"ts", "readme"}, listing \in BatchListings :
                   ClerkAssign(v,
                               [lot |-> parsedLegal.lot1, block |-> parsedLegal.block,
                                subdivision |-> parsedLegal.subdivision,
                                city_block |-> parsedLegal.city_block],
                               listing, "start")
    /\ UNCHANGED <<property, parsedLegal, property_documents, filterVars, dataVars,
                   compactVars>>

SaveAssessment ==
    \E sv \in SaveVariants, fault \in SaveFaults : SaveAssessmentWith(sv, fault)

\* a test that takes every success for one with records: a faulty test
Succeeded(r) == r.success

\* clerkResult.success && clerkResult.data && clerkResult.data.length > 0
HasRecords(r) == r.success /\ Len(r.data) > 0

\* the outcome the orchestrator logs for the result of runClerkScraper
ClerkOutcome(r, threw, saved) ==
    IF threw THEN "critical error"
    ELSE IF r.success /\ Len(r.data) > 0
    THEN (IF saved = "ok" THEN "clerk saved"
          ELSE IF saved = "error" THEN "clerk save failed"
          ELSE "critical error")
    ELSE "clerk failed or empty"

\* if (clerkResult.success && clerkResult.data && clerkResult.data.length > 0)
\*   await saveClerkDataToSupabase(accountNumber, clerkResult.data)
\* else console.log(...) } catch (error) { console.error(...) } }
ClerkReturn ==
    /\ opc = "clerk"
    /\ pc = "done"
    /\ \E saved \in {"ok", "error", "threw"} :
         LET saving == ~raised /\ HasRecords(result)
             records == IF saving /\ saved = "ok"
                        THEN DocumentRecords(property, result.data) ELSE <<>>
         IN  /\ saving \/ saved = "ok"
             /\ property_documents' =
                  IF saving /\ saved # "threw"
                  THEN [property_documents EXCEPT ![property] = records]
                  ELSE property_documents
             /\ stages' = Append(stages,
                    StageEntry(property, ClerkOutcome(result, raised, saved),
                               ListingUnavailable, Len(records)))
    /\ opc' = "next"
    /\ ClerkAssign(NULL, NULL, <<>>, "idle")
    /\ UNCHANGED <<property, parsedLegal, filterVars, dataVars, compactVars>>

\* the loop is over: runAllScrapers() resolves
Finish ==
    /\ opc = "next"
    /\ property = BatchSize
    /\ opc' = "finished"
    /\ UNCHANGED <<inputVars, flowVars, sessionVars, browserVars, listVars,
                   docVars, captureVars, processedDocs, historyVars, faults,
                   property, parsedLegal, stages, property_documents,
                   filterVars, dataVars, compactVars>>

BatchNext == StartProperty \/ SaveAssessment \/ ClerkReturn \/ Finish

BatchInit ==
    /\ opc = "next"
    /\ property = 0
    /\ parsedLegal = NULL
    /\ stages = <<>>
    /\ property_documents \in {[p \in 1..BatchSize |-> <<>>],
                              [p \in 1..BatchSize |-> EarlierDocuments(p)]}
    /\ ClerkIdle
    /\ FilterIdle
    /\ CompactIdle
    /\ DataIdle

SpecBatch == BatchInit /\ [][ClerkNext \/ BatchNext]_vars

-----------------------------------------------------------------------------
(* Properties of the document filter                                       *)

\* a listing entry matches a target when its text holds, compared without
\* regard to case on both sides, LOT/LT followed by the lot and BLOCK/BLK
\* followed by the block, each anchored at word boundaries
MatchesIgnoringCase(doc, target) ==
    /\ KeywordValueTest(toUpperCase(doc.legal_description), LotKeywords,
                        toUpperCase(target.lot))
    /\ KeywordValueTest(toUpperCase(doc.legal_description), BlockKeywords,
                        toUpperCase(target.block))

RetainedIgnoringCase(docs, target) ==
    LET Keep(doc) == MatchesIgnoringCase(doc, target)
    IN  SelectSeq(docs, Keep)

\* C8: the filter of runClerkScraper retains an entry if and only if its
\* legal description holds a word-boundary-anchored LOT/LT + lot and a
\* word-boundary-anchored BLOCK/BLK + block, compared case-insensitively for
\* every casing of the text and of the target values.
C8_FilterIsCaseInsensitiveMatch ==
    fpc = "filtered" => fFiltered = RetainedIgnoringCase(fDocuments, fTarget)

\* two targets with the same lot and the same block
SameLotAndBlock(a, b) == a.lot = b.lot /\ a.block = b.block

\* C9: the documents retained and persisted for a property do not depend on
\* the subdivision: for any other target with the same lot and block, the
\* same listing gives the same retained entries, in the same order, from the
\* filter of runClerkScraper and from the filter applied before the save.
C9_RetainedSetIgnoresSubdivision ==
    \A other \in FilterTargets :
        SameLotAndBlock(other, fTarget) =>
            /\ fpc = "filtered" => FilterDocuments(fDocuments, other) = fFiltered
            /\ fpc = "persisted" =>
                   FilterDocumentsBySubdivision(fDocuments, other) = fPersisted

-----------------------------------------------------------------------------
(* Properties of the interval compaction                                   *)

NoDuplicates(seq) == \A i, j \in 1..Len(seq) : i # j => seq[i] # seq[j]

\* the years observed for a key
ObservedYears(cleaned, key) ==
    {cleaned[i].year : i \in {j \in 1..Len(cleaned) : cleaned[j].key = key}}

ObservedKeys(cleaned) == {cleaned[i].key : i \in 1..Len(cleaned)}

\* the positions of the ranges of a key in the records
RangesFor(records, key) == {i \in 1..Len(records) : records[i].key = key}

YearsIn(range) == range.start_year..range.end_year

\* the years that start a maximal run of consecutive years
RunStarts(years) == {y \in years : y - 1 \notin years}

\* the ranges of the records partition the observed years of every key into
\* its maximal runs of consecutive years
CompactsExactly(cleaned, records) ==
    /\ {records[i].key : i \in 1..Len(records)} = ObservedKeys(cleaned)
    /\ \A key \in ObservedKeys(cleaned) :
         LET mine == RangesFor(records, key)
             years == ObservedYears(cleaned, key)
         IN  /\ UNION {YearsIn(records[i]) : i \in mine} = years
             /\ \A i \in mine : records[i].start_year <= records[i].end_year
             /\ \A i, j \in mine :
                  i # j => YearsIn(records[i]) \cap YearsIn(records[j]) = {}
             /\ \A i, j \in mine :
                  records[i].end_year + 1 # records[j].start_year
             /\ Cardinality(mine) = Cardinality(RunStarts(years))

ExampleRanges ==
    << [key |-> 1, start_year |-> 2019, end_year |-> 2022],
       [key |-> 1, start_year |-> 2015, end_year |-> 2015] >>

\* C10: for every finite set of (key, year) observations, the compaction of
\* the exemptions and of the ownership history gives per key ranges whose
\* years are exactly the observed years of the key, pairwise disjoint, with
\* start_year <= end_year, and maximal (no two adjacent: as many ranges as
\* maximal runs); years 2015, 2019..2022 give (2019..2022) then (2015..2015).
C10_CompactionCoversInMaximalRuns ==
    (cpc # "start" /\ NoDuplicates(cInput)) =>
        /\ CompactsExactly(cInput, recordsToInsert)
        /\ cInput = ExampleObservations => recordsToInsert = ExampleRanges

\* the exemptions of the worked example have been compacted
C10_ExampleCompacted ==
    /\ cpc = "exemptions"
    /\ cInput = ExampleObservations
    /\ recordsToInsert = ExampleRanges

\* the observations without the repeated ones, in the order of their first
\* occurrence
RECURSIVE WithoutDuplicates(_)
WithoutDuplicates(seq) ==
    IF seq = <<>> THEN <<>>
    ELSE LET rest == WithoutDuplicates(SubSeq(seq, 1, Len(seq) - 1))
             last == seq[Len(seq)]
         IN  IF \E i \in 1..Len(rest) : rest[i] = last THEN rest ELSE Append(rest, last)

\* the ranges the compaction at hand gives for a list of observations
CompactionOf(cleaned) ==
    CASE cpc = "exemptions" -> CompactExemptions(cleaned)
      [] cpc = "ownership" -> CompactOwnership(cleaned)
      [] cpc = "exemptionsSecond" -> CompactExemptionsSecond(cleaned)

\* no year is in two ranges of the same key
NoYearCoveredTwice(records) ==
    \A i, j \in 1..Len(records) :
        (i # j /\ records[i].key = records[j].key) =>
            YearsIn(records[i]) \cap YearsIn(records[j]) = {}

\* C11: the compaction is insensitive to duplicates: a list in which a
\* (key, year) pair occurs more than once gives the ranges of the list
\* without the duplicates, and no year is covered by two ranges of a key.
C11_DuplicatesCountOnce ==
    cpc # "start" =>
        /\ recordsToInsert = CompactionOf(WithoutDuplicates(cInput))
        /\ NoYearCoveredTwice(recordsToInsert)

\* s without a trailing "& ET AL"
StripTrailingEtAl(s) ==
    LET starts == {i \in 1..Len(s) : EtAlEnd(s, i) = Len(s) + 1}
    IN  IF starts = {} THEN s
        ELSE trim(SubSeq(s, 1, (CHOOSE i \in starts : TRUE) - 1))

\* the name in upper case, without commas and periods, with its white space
\* collapsed and without a trailing "& ET AL"
DescribedNormalForm(name) ==
    StripTrailingEtAl(trim(CollapseSpaces(RemoveCommasAndPeriods(toUpperCase(name)), 1)))

\* C15: normalizeOwnerName returns the name in upper case, with commas and
\* periods removed, runs of white space collapsed, and "& ET AL" removed
\* only where it is the trailing suffix of the name.
C15_EtAlRemovedOnlyAsSuffix ==
    tpc = "normalized" => tOutput = DescribedNormalForm(tInput.text)

-----------------------------------------------------------------------------
(* Properties of the owners and the ownership history                      *)

Saved == spc \in {"savedFirst", "savedSecond"}

\* the identifier under which the save at hand files a raw owner name
OwnerIdOf(name) ==
    MapGet(ownerNameToIdMap,
           IF spc = "savedFirst" THEN normalizeOwnerName(trim(name)) ELSE trim(name))

\* the (owner, year) observations of the run: the history entries, and for
\* the save that stores the current owners, their current year
OwnerObservations ==
    [i \in 1..Len(ownershipHistory) |->
        [key |-> OwnerIdOf(ownershipHistory[i].name), year |-> ownershipHistory[i].year]]
    \o (IF spc = "savedSecond"
        THEN [i \in 1..Len(currentOwners) |->
                [key |-> OwnerIdOf(currentOwners[i].name), year |-> CurrentYear]]
        ELSE <<>>)

\* C12: after a save, the stored ownership intervals of every owner of the
\* property are pairwise disjoint, maximal, and cover every observed year
\* of the owner exactly once, also when several owners share years and when
\* current owners are in the history too.
C12_OwnershipIntervalsExact ==
    Saved => CompactsExactly(OwnerObservations, ownership_history)

\* the (owner, year) pairs of the history, in the order of the history
HistoryObservations ==
    [i \in 1..Len(ownershipHistory) |->
        [key |-> OwnerIdOf(ownershipHistory[i].name), year |-> ownershipHistory[i].year]]

\* the ranges stored for the history (the records of the current owners, which
\* the second save appends, left out), as (key, start_year, end_year)
StoredHistoryRanges ==
    LET stored == IF spc = "savedSecond"
                  THEN SubSeq(ownership_history, 1,
                              Len(ownership_history) - Len(currentOwners))
                  ELSE ownership_history
    IN  [i \in 1..Len(stored) |->
            [key |-> stored[i].key, start_year |-> stored[i].start_year,
             end_year |-> stored[i].end_year]]

\* C13: the compaction of the ownership history and the compaction of the
\* exemptions are one function: the (key, year) list of the history gives
\* the ranges, in the order, that the exemption compaction of the same save
\* gives for that list.
C13_OwnershipCompactedAsExemptions ==
    /\ spc = "savedFirst" =>
          StoredHistoryRanges = CompactExemptions(HistoryObservations)
    /\ spc = "savedSecond" =>
          StoredHistoryRanges = CompactExemptionsSecond(HistoryObservations)

\* the raw owner names of the run
RawNames ==
    {trim(currentOwners[i].name) : i \in 1..Len(currentOwners)}
        \cup {trim(ownershipHistory[i].name) : i \in 1..Len(ownershipHistory)}

SameIdentity(a, b) == normalizeOwnerName(a) = normalizeOwnerName(b)

\* C14: raw owner names whose normalized forms are equal ('JOHN SMITH' and
\* 'JOHN SMITH & ET AL') are one Owner: one record of owners, one
\* identifier, and their years filed under that identifier.
C14_EqualNormalFormsOneOwner ==
    Saved =>
        /\ \A i, j \in 1..Len(owners) :
              SameIdentity(owners[i].owner_name, owners[j].owner_name) => i = j
        /\ \A a, b \in RawNames : SameIdentity(a, b) => OwnerIdOf(a) = OwnerIdOf(b)

\* the owner entries of the run in the order in which the save reads them:
\* the current owners, then the history
SeenOwners ==
    [i \in 1..Len(currentOwners) |->
        [name |-> trim(currentOwners[i].name), value |-> currentOwners[i].address]]
    \o [i \in 1..Len(ownershipHistory) |->
        [name |-> trim(ownershipHistory[i].name), value |-> HistoryAddress]]

\* the first entry read for a raw name
FirstSeen(name) ==
    SeenOwners[CHOOSE i \in 1..Len(SeenOwners) :
                  /\ SeenOwners[i].name = name
                  /\ \A j \in 1..(i - 1) : SeenOwners[j].name # name]

\* C16: the owner map of a run is first-seen-wins by raw name: every raw
\* name is one key, holding the metadata of the first entry read for it,
\* whether later entries of that name come from the current owners or from
\* the history; a raw name with the same normalized form is a key of its own.
C16_OwnerMapFirstSeenWins ==
    Saved =>
        /\ {allOwners[i].name : i \in 1..Len(allOwners)} = RawNames
        /\ \A i, j \in 1..Len(allOwners) :
              allOwners[i].name = allOwners[j].name => i = j
        /\ \A i \in 1..Len(allOwners) : allOwners[i] = FirstSeen(allOwners[i].name)

-----------------------------------------------------------------------------
(* Properties of parseLegalDescription                                     *)

\* a description that is not empty has been parsed
Parsed == tpc = "parsed" /\ tInput.kind = "text" /\ tInput.text # <<>>

\* the joined lines of the description parsed
JoinedLines == JoinLines(TrimmedLines(tInput.text))

\* where the first 'BLK' of the joined lines is, in any case; 0: nowhere
FirstBlk == IndexOf(toUpperCase(JoinedLines), <<"B","L","K">>)

\* the first line, when it holds no block token, else null
FirstLineWithoutBlock ==
    LET lines == TrimmedLines(tInput.text)
    IN  IF /\ lines # <<>>
           /\ \A w \in BlockWords : ~Includes(toUpperCase(lines[1]), w)
        THEN TextValue(lines[1])
        ELSE NullValue

FirstWritten(part, tail) == IF part.text # <<>> THEN part ELSE tail

ExampleDescription ==
    <<"S","T"," ","A","U","G","U","S","T","I","N","E"," ","H","I","G","H","L","A","N","D","S","\n","B","L","K"," ","N","/","6","7","5","7","\n","L","T"," ","8">>

ExampleParsed ==
    [subdivision |-> TextValue(<<"S","T"," ","A","U","G","U","S","T","I","N","E"," ","H","I","G","H","L","A","N","D","S">>),
     block |-> TextValue(<<"N">>), city_block |-> TextValue(<<"6","7","5","7">>),
     lot1 |-> TextValue(<<"8">>), lot2 |-> NullValue]

\* C18: block and city_block come from the first BLK/BLOCK match only: block
\* is the token that follows the keyword, city_block the token after an
\* optional '/', each null when absent; 'ST AUGUSTINE HIGHLANDS', 'BLK
\* N/6757', 'LT 8' on three lines give subdivision 'ST AUGUSTINE HIGHLANDS',
\* block 'N', city_block '6757', lot1 '8' and lot2 null.
C18_BlockFromFirstMatch ==
    Parsed =>
        /\ \A sub \in SubdivisionParts, sep1 \in Separators, blk \in DescribedBlocks,
              sep2 \in Separators, lot \in DescribedLots, tail \in DescribedTails :
              tInput.text = DescriptionOf(sub, sep1, blk, sep2, lot, tail) =>
                  /\ tOutput.block = ValueOrNull(FirstWritten(blk, tail).block)
                  /\ tOutput.city_block = ValueOrNull(FirstWritten(blk, tail).city_block)
        /\ tInput.text = ExampleDescription => tOutput = ExampleParsed

\* the description of the example has been parsed
C18_ExampleParsed ==
    /\ tpc = "parsed"
    /\ tInput.text = ExampleDescription
    /\ tOutput = ExampleParsed

ParsedFields == {"subdivision", "block", "city_block", "lot1", "lot2"}

\* C19: lot1 and lot2 come from the first LT/LOT/LTS/LOTS match, lot1 its
\* digits and lot2 the digits after an optional '&', null when absent; and
\* for every input, null, empty and irregular ones included, the parser
\* returns all five fields, each a text or null.
C19_LotsAndAllFieldsForEveryInput ==
    tpc = "parsed" =>
        /\ DOMAIN tOutput = ParsedFields
        /\ \A f \in ParsedFields : tOutput[f].kind \in {"text", "null"}
        /\ \A sub \in SubdivisionParts, sep1 \in Separators, blk \in DescribedBlocks,
              sep2 \in Separators, lot \in DescribedLots, tail \in DescribedTails :
              tInput.text = DescriptionOf(sub, sep1, blk, sep2, lot, tail) =>
                  /\ tOutput.lot1 = ValueOrNull(FirstWritten(lot, tail).lot1)
                  /\ tOutput.lot2 = ValueOrNull(FirstWritten(lot, tail).lot2)

-----------------------------------------------------------------------------
(* Properties of runClerkScraper                                           *)

\* the places of the control after the catch clause of the document
AfterCatch == {"docFinally", "goBack", "outerCatch", "close", "done"}

\* the return statement has been executed (the finally clause that closes
\* the session has not)
Returning == pc = "close"

\* the call has returned: it has not raised
Returned == pc = "done" /\ ~raised

\* C1: once the initial listing has appeared, no failure while a matched
\* document is processed (viewer open, page count, capture, next page, OCR,
\* summarization, a recovery step, go-back) makes runClerkScraper return
\* FAILED: the run that has started on a document returns success.
C1_NoDocumentFailureFailsRun ==
    (Returning /\ docLog # <<>>) => result.success

\* C2: whenever runClerkScraper returns success, its data holds exactly one
\* record per listing entry the filter retained, in the listing's order, each
\* with the entry's listing fields unchanged plus a summary and a document
\* URL; no matched document is dropped or duplicated.
C2_OneRecordPerRetainedEntry ==
    (Returned /\ result.success) =>
        /\ filteredDocuments = FilterDocuments(documents, targetLegal)
        /\ documents = siteListing
        /\ Len(result.data) = Len(filteredDocuments)
        /\ \A i \in 1..Len(result.data) :
             /\ result.data[i].doc_id = filteredDocuments[i].doc_id
             /\ result.data[i].instrument_number = filteredDocuments[i].instrument_number
             /\ result.data[i].legal_description = filteredDocuments[i].legal_description
             /\ DOMAIN result.data[i] =
                  DOMAIN filteredDocuments[i] \cup {"summary", "documentUrl"}

\* a run over three listed entries, two of them retained, has returned
\* success: the capture of the first document failed, that of the second
\* succeeded
C2_ReturnedWithFailedAndCapturedDocument ==
    /\ Returned
    /\ result.success
    /\ Len(documents) = 3
    /\ Len(result.data) = 2
    /\ result.data[1].summary = Sentinel
    /\ result.data[2].summary = GeneratedSummary(DocumentText)

\* C3: a session-lost error on the first capture attempt of a document
\* triggers exactly one recovery, which replays the search query issued
\* initially, and nothing triggers another: every document gets at most two
\* capture attempts and at most one recovery.
C3_SessionLostRecoversOnce ==
    /\ \A i \in 1..Len(docLog) :
         /\ docLog[i].attempts <= 2
         /\ docLog[i].recoveries <= 1
         /\ (docLog[i].lostFirst /\ (i < Len(docLog) \/ pc \in AfterCatch)) =>
                docLog[i].recoveries = 1
    /\ \A i \in 1..Len(gotoLog) : gotoLog[i] = SearchUrl(targetLegal)

\* C4: with N matched documents and a session-lost error raised while
\* document k is captured, the run performs exactly one recovery, for
\* document k, and still returns N records; record k carries the sentinel
\* unless the retry completed, and the other records are those of captures
\* without recovery.
C4_SessionLostStillReturnsAllRecords ==
    (Returning /\ \E k \in 1..Len(docLog) : docLog[k].lostFirst) =>
        /\ result.success
        /\ Len(result.data) = Len(filteredDocuments)
        /\ \A k \in 1..Len(docLog) :
             /\ docLog[k].recoveries = (IF docLog[k].lostFirst THEN 1 ELSE 0)
             /\ (k <= Len(result.data) /\ ~docLog[k].completed) =>
                    result.data[k].summary = Sentinel

\* C5: every viewer open for a matched document, the first one and the one
\* after a recovery, opens that same document, whatever instrument numbers
\* the entries of the listing share or lack and whatever the order of the
\* rows of a replayed listing.
C5_ViewerOpensTheMatchedDocument ==
    pc = "waitViewer" => page.doc = filteredDocuments[index].doc_id

\* C6: if the text extraction or the summarization fails for a document, its
\* record carries exactly the sentinel: a record's summary is always the
\* sentinel or the summary generated from the extracted document text.
C6_SummaryIsSentinelOrOfDocumentText ==
    \A i \in 1..Len(processedDocs) :
        processedDocs[i].summary \in {Sentinel, GeneratedSummary(DocumentText)}

-----------------------------------------------------------------------------
(* Properties of the batch                                                 *)

\* what holds of a run whose listing never appeared
NothingCaptured ==
    /\ processedDocs = <<>>
    /\ docLog = <<>>
    /\ calls = NoCalls
    /\ ~result.success
    /\ result.data = <<>>
    /\ (Returning \/ Returned) => result.error # NULL

\* the orchestrator takes the result of the run of the current property:
\* nothing is saved and the loop is at its next iteration
ContinuesWithoutSaving ==
    /\ opc' = "next"
    /\ property' = property
    /\ property_documents' = property_documents
    /\ stages' = Append(stages, stages'[Len(stages')])
    /\ stages'[Len(stages')].property = property
    /\ stages'[Len(stages')].saved = 0

NoBlockOrLot == parsedLegal.block = <<>> \/ parsedLegal.lot1 = <<>>

\* C20: for a property whose legal description yields no parsable block or
\* lot the capture is never started: the step that follows the save of the
\* assessment creates no session and writes no document row, logs the
\* property as skipped (or with the failure of the save itself), and the
\* batch is at its next property, which it can start; runClerkScraper is
\* never running for such a property.
C20_NoBlockOrLotSkipsCapture ==
    /\ [][(opc = "save" /\ NoBlockOrLot) =>
            /\ opc' = "next"
            /\ pc' = "idle"
            /\ UNCHANGED <<clerkVars, property_documents>>
            /\ stages'[Len(stages')].property = property
            /\ stages'[Len(stages')].outcome \in
                  {"skipped", "save failed", "critical error"}]_vars
    /\ [](opc = "clerk" => ~NoBlockOrLot)
    /\ []((opc = "next" /\ property < BatchSize) => ENABLED StartProperty)

\* a property without a block was skipped and the next property was started
C20_SkippedThenNextProperty ==
    /\ property = 2
    /\ opc = "save"
    /\ stages # <<>>
    /\ stages[1] = StageEntry(1, "skipped", FALSE, 0)
    /\ stagehand = 0
    /\ property_documents[1] = <<>>

\* C21: when the assessment was extracted and saved, the capture stage runs
\* for every property whose parsed legal description has a block and a lot,
\* whatever its subdivision: the step that follows the save either starts
\* runClerkScraper or records that the save itself failed
C21_BlockAndLotRunCapture ==
    [][(opc = "save" /\ ~NoBlockOrLot)
        => \/ opc' = "clerk" /\ pc' = "start"
           \/ /\ opc' = "next"
              /\ stages'[Len(stages')].outcome \in {"save failed", "critical error"}]_vars

\* the step in which the assessment stage of a property fails: the
\* orchestrator, between two properties, logs an outcome
AssessmentFails == opc = "next" /\ Len(stages') > Len(stages)

\* C22: when the assessment scraper returns a failure or raises, the
\* remaining stages of that property are dropped (nothing is saved, no
\* capture is started, the failure is logged for that property) and the loop
\* goes on: the properties are taken one by one in order, each once, the next
\* one can always be started, and the batch ends only after the last one
C22_AssessmentFailureAbortsOnlyThatProperty ==
    /\ [][AssessmentFails =>
            /\ property' = property + 1
            /\ stages' = Append(stages, stages'[Len(stages')])
            /\ stages'[Len(stages')].property = property'
            /\ stages'[Len(stages')].outcome \in
                  {"assessment failed", "critical error"}
            /\ stages'[Len(stages')].saved = 0
            /\ opc' = "next"
            /\ pc' = "idle"
            /\ UNCHANGED <<clerkVars, property_documents, dataVars>>]_vars
    /\ [][property' # property =>
            /\ opc = "next"
            /\ property < BatchSize
            /\ property' = property + 1]_vars
    /\ [](opc = "next" => pc = "idle" /\ Len(stages) = property)
    /\ [](opc = "finished" => property = BatchSize)
    /\ []((opc = "next" /\ property < BatchSize) => ENABLED StartProperty)

\* the assessment of the first property failed, that of the second one
\* succeeded and nothing was captured or saved for the first one
C22_SecondPropertyAfterAssessmentFailure ==
    /\ property = 2
    /\ opc = "save"
    /\ stages = <<StageEntry(1, "assessment failed", FALSE, 0)>>
    /\ stagehand = 0
    /\ closeCalls = <<>>
    /\ property_documents[1] = <<>>

\* C23: when a persistence operation of the save of the assessment fails
\* (the upsert of the property or of the owners, a scoped delete, an insert
\* of intervals or snapshots) the save reports the error: the capture stage
\* is not run for that property, the failure of the save is logged and the
\* loop goes on with the next property
C23_FailedPersistenceSkipsCapture ==
    [][\A sv \in SaveVariants, op \in PersistenceOps :
          SaveAssessmentWith(sv, op) =>
              /\ opc' = "next"
              /\ pc' = "idle"
              /\ UNCHANGED <<clerkVars, property_documents>>
              /\ stages'[Len(stages')].property = property
              /\ stages'[Len(stages')].outcome = "save failed"]_vars

\* the save of the assessment has returned: no ownership row of an earlier
\* save is left (under SpecOwners: it fails for the return of lines 140-143,
\* which comes before the deletes of lines 151-153)
EarlierOwnershipRemoved ==
    spc \in {"noOwners", "savedFirst", "savedSecond"} =>
        \A i \in 1..Len(ownership_history), k \in 1..Len(EarlierOwnership) :
            ownership_history[i] # EarlierOwnership[k]

\* the rows stored for the property at hand
StoredDocuments == property_documents[property]

\* C24: after a run has processed a property, the rows stored for it are
\* those computed from the observations of this run and no row of an earlier
\* run survives, also when the run matched no documents: when the capture of
\* a property returns with success and no persistence operation raises, every
\* document row of the property is a row of the documents returned and none
\* is a row of an earlier run
C24_NoEarlierRowSurvives ==
    [][(/\ opc = "clerk" /\ opc' = "next" /\ ~raised /\ result.success
        /\ stages'[Len(stages')].outcome # "critical error") =>
          \A i \in 1..Len(StoredDocuments') :
              /\ \E k \in 1..Len(result.data) :
                    StoredDocuments'[i] = DocumentRecords(property, result.data)[k]
              /\ \A k \in 1..Len(EarlierDocuments(property)) :
                    StoredDocuments'[i] # EarlierDocuments(property)[k]]_vars

\* C25: every retryable operation is retried at most once; here, for the
\* calls of the assessment scraper that go through withRetry: fn is never
\* called more than twice in one call of withRetry
C25_AtMostOneRetry ==
    \A c \in RetriedCalls : fnCalls[c] <= 2

\* the error caught is none of the messages of a lost session
OtherError == err \in {TimeoutMessage, ApiMessage, TransportMessage, ParseMessage}

\* the capture of document k failed at its first attempt with an error that
\* is none of a lost session
FailedOtherwise(k) ==
    /\ k \in 1..Len(docLog)
    /\ ~docLog[k].completed
    /\ ~docLog[k].lostFirst

OpensNextDocument ==
    /\ pc = "open"
    /\ index > 1
    /\ attempt = 1
    /\ docLog[index].attempts = 0

\* C27: whenever the open step of document k+1 begins, the session is on
\* the listing of results, whatever the outcome of document k was
C27_NextDocumentOpensOnListing ==
    OpensNextDocument => page = ListingPage

\* the extraction of the page count goes wrong: the step is one with a
\* fault of the environment
PageCountFails == pc = "pageCount" /\ faults' > faults

\* C28: when the extraction of the page count fails, the capture of the
\* document goes on with a page count of 1 (one image, captured and passed
\* to OCR) instead of failing the document
C28_PageCountDefaultsToOne ==
    [][PageCountFails =>
          /\ pageCount' = 1
          /\ pc' = "screenshot"
          /\ pageNo' = 1
          /\ images' = <<>>
          /\ err' = NULL]_vars

\* pages 1..n of the document the viewer shows, in page order
PagesUpTo(n) == [k \in 1..n |-> [doc |-> page.doc, no |-> k]]

\* C29: every capture attempt that reaches OCR makes one OCR call, with the
\* images of pages 1..N of that attempt in page order (N the page count
\* reported), after N-1 next-page actions (none when N is 0); the images of
\* an earlier attempt of the document are not among them: the images of an
\* attempt start empty and grow by the page shown, one page at a time
C29_OneOcrCallWithPagesInOrder ==
    /\ [](pc = "ocr" =>
            /\ images = PagesUpTo(pageCount)
            /\ pageNo = (IF pageCount = 0 THEN 1 ELSE pageCount)
            /\ page.no = pageNo)
    /\ [](pc \in {"screenshot", "nextPage"} =>
            /\ pageNo \in 1..pageCount
            /\ page.no = pageNo
            /\ images = PagesUpTo(IF pc = "screenshot" THEN pageNo - 1 ELSE pageNo))
    /\ [][pc = "ocr" =>
            /\ calls'.ocr = calls.ocr + 1
            /\ pc' = "summarize"
            /\ \E response \in ApiResponses :
                  extractedText' = getTextFromImages(images, response)]_vars
    /\ [][calls'.ocr # calls.ocr => (pc = "ocr" \/ calls' = NoCalls)]_vars
    /\ [][(pc \in {"screenshot", "nextPage", "ocr"} /\ pageNo' # pageNo) =>
            /\ pc = "nextPage"
            /\ pageNo' = pageNo + 1]_vars

\* README.md: the second attempt of a document, after a recovery, has reached
\* OCR with the two pages of the document
C29_RetryReachesOcr ==
    /\ variant = "readme"
    /\ attempt = 2
    /\ docLog[index].attempts = 2
    /\ pc = "ocr"
    /\ pageCount = 2
    /\ images = PagesUpTo(2)

\* the steps of a document, from the click on its row to its finally clause
DocumentSteps ==
    {"open", "waitViewer", "pageCount", "screenshot", "nextPage", "ocr",
     "summarize", "catch", "recoverClose", "recoverInit", "recoverGoto",
     "recoverWait", "docFinally"}

\* C30: within a capture run the documents are taken one after the other
\* and at most one session is open at any time: while document k is worked
\* on exactly the records of the k-1 documents before it are there, a viewer
\* is opened for document k+1 only after the record of document k was
\* appended, and a recovery creates its session only after the stale one
\* was closed
C30_SequentialDocumentsOneSession ==
    /\ [](Cardinality(openSessions) <= 1)
    /\ [](openSessions \subseteq {stagehand})
    /\ [](pc \in DocumentSteps => Len(processedDocs) = index - 1)
    /\ [][(pc # "idle" /\ pc' # "idle" /\ index' # index) =>
            /\ index' = index + 1
            /\ Len(processedDocs') = index]_vars
    /\ [][(calls'.open # calls.open /\ calls' # NoCalls) =>
            /\ pc = "open"
            /\ Len(processedDocs) = index - 1]_vars
    /\ [][(stagehand # 0 /\ stagehand' \notin {stagehand, 0}) =>
            /\ pc = "recoverInit"
            /\ stagehand' = stagehand + 1
            /\ stagehandClosed
            /\ closeCalls[stagehand] >= 1
            /\ openSessions = {}]_vars

\* README.md: the session of the run was lost at the second document; the
\* stale session was closed, a new one is open and the second document is
\* opened again after the record of the first one
C30_SecondDocumentInNewSession ==
    /\ variant = "readme"
    /\ stagehand = 2
    /\ openSessions = {2}
    /\ closeCalls = <<1, 0>>
    /\ index = 2
    /\ attempt = 2
    /\ Len(processedDocs) = 1
    /\ pc = "waitViewer"

\* the strings getTextFromImages returns in place of the text when the
\* request for the text failed
OcrSentinels ==
    {"Could not extract text from images.",
     "Failed to extract text due to a critical error."}

\* the messages of the errors a failed request of the API raises
ApiErrors == {ParseMessage, ApiMessage, TransportMessage}

\* C31: getTextFromImages never raises: whatever the request for the text
\* does (transport error, non-OK status, unparsable or empty response), the
\* OCR step goes on to the summarization with a string, a sentinel sentence
\* when the request failed. summarizeDocumentText raises on a transport
\* error and on a non-OK status, and the catch clause of the document takes
\* the raise: the run goes to the finally clause of the document with the
\* session untouched, nothing returned and no error propagating.
C31_OcrReturnsAStringAndSummarizeRaises ==
    /\ [][pc = "ocr" => \E response \in ApiResponses : OcrWith(response)]_vars
    /\ [][\A response \in ApiResponses :
            OcrWith(response) =>
                /\ pc' = "summarize"
                /\ UNCHANGED <<err, propagating, result, raised>>
                /\ extractedText' \in {"", DocumentText} \cup OcrSentinels
                /\ (response # "text" /\ images # <<>>) =>
                        extractedText' \in OcrSentinels]_vars
    /\ [][\A response \in {"status", "transport"} :
            (SummarizeWith(response) /\ extractedText # "") =>
                /\ pc' = "catch"
                /\ err' = ApiError(response)
                /\ UNCHANGED <<summary, result, raised, propagating>>]_vars
    /\ [][(pc = "catch" /\ err \in ApiErrors) =>
            /\ pc' = "docFinally"
            /\ err' = NULL
            /\ UNCHANGED <<sessionVars, index, attempt, result, raised,
                           propagating, processedDocs>>]_vars
    /\ [](err \in ApiErrors => (pc = "catch" /\ ~propagating /\ result = NoResult))

\* the request for the text of the first document failed, the OCR step
\* returned the sentinel sentence, and the summarization of that sentence
\* raised a transport error that the catch clause of the document holds
C31_SummarizeRaisedAfterOcrSentinel ==
    /\ pc = "catch"
    /\ index = 1
    /\ err = TransportMessage
    /\ extractedText = "Failed to extract text due to a critical error."
    /\ calls.ocr = 1
    /\ calls.summarize = 1

\* the years the market-value history of this run shows
ObservedValueYears ==
    {marketValueHistory[i].year : i \in 1..Len(marketValueHistory)} \ {0}

\* the stored value rows of year y
ValueRowsOf(y) == {i \in 1..Len(value_history) : value_history[i].year = y}

\* the value history holds one row per observed year and no other row
OneRowPerObservedYear ==
    /\ \A y \in ObservedValueYears : Cardinality(ValueRowsOf(y)) = 1
    /\ \A i \in 1..Len(value_history) : value_history[i].year \in ObservedValueYears

\* C32: after the save of a property's assessment data has returned without
\* an error, the value history holds exactly one row per year of the
\* market-value history of the run, no observed year missing and none
\* stored twice, whether or not the run found an owner
C32_OneValueRowPerObservedYear ==
    spc \in {"noOwners", "savedFirst", "savedSecond"} => OneRowPerObservedYear

\* the same when the run found an owner and its market-value history shows
\* every year once and no unreadable year
ValueRowsWhenOwnersAndDistinctYears ==
    (/\ spc \in {"savedFirst", "savedSecond"}
     /\ \A i, j \in 1..Len(marketValueHistory) :
           /\ marketValueHistory[i].year # 0
           /\ marketValueHistory[i].year = marketValueHistory[j].year => i = j)
        => OneRowPerObservedYear

\* the call has completed with a Result value: a success, or a failure with
\* an error message
CompletedWithResult ==
    /\ ~raised
    /\ \/ result.success /\ result.error = NULL
       \/ ~result.success /\ result.error # NULL /\ result.data = <<>>

\* C33: runClerkScraper always completes with a Result value, success with
\* the records or failure with an error message, and never raises to its
\* caller, on every path, a failure to close the session and a failure of
\* the go-back step after a document included
C33_AlwaysCompletesWithResult ==
    pc = "done" => CompletedWithResult

\* the same for README.md, whose safeClose swallows the error of the close,
\* and for clerk-scraper.ts as long as the close of the session succeeds
CompletedWithResultUnlessCloseFails ==
    /\ (pc = "done" /\ variant = "readme") => CompletedWithResult
    /\ [][(pc = "close" /\ variant = "ts" /\ faults' = faults) =>
            (pc' = "done" /\ CompletedWithResult')]_vars

\* C34: when runClerkScraper completes, every session it created, the
\* initial one and any created by a recovery, has been closed, and none is
\* closed twice: no session is open after the run on any path (success,
\* empty match set, listing failure, failed recovery, failed initialisation
\* of the session of a recovery), a session leaves the open ones only by
\* its own close, and close is called at most once on a session; the only
\* Stagehand object close is never called on is that of a recovery whose
\* init failed, which ends the run
C34_EverySessionClosedOnce ==
    /\ [](pc = "done" => openSessions = {})
    /\ [](\A s \in 1..Len(closeCalls) : closeCalls[s] <= 1)
    /\ [](openSessions \subseteq 1..Len(closeCalls))
    /\ [][\A s \in openSessions \ openSessions' :
            closeCalls'[s] = closeCalls[s] + 1]_vars
    /\ [](pc = "done" =>
            \A s \in 1..Len(closeCalls) :
                (closeCalls[s] = 0) =>
                    /\ variant = "readme"
                    /\ s > 1
                    /\ s = Len(closeCalls)
                    /\ ~result.success)

\* README.md: the run has completed after a recovery, with the session of
\* the start and the session of the recovery each closed once
C34_BothSessionsClosedAfterRecovery ==
    /\ pc = "done"
    /\ variant = "readme"
    /\ result.success
    /\ closeCalls = <<1, 1>>
    /\ openSessions = {}

\* the positions of a capture attempt before its summarization has
\* returned, of its catch clause and of a recovery
BeforeSummary ==
    {"open", "waitViewer", "pageCount", "screenshot", "nextPage", "ocr",
     "summarize", "catch", "recoverClose", "recoverInit", "recoverGoto",
     "recoverWait"}

\* C35: a record's summary differs from the sentinel only if one capture
\* attempt of its document completed every step: the summary is assigned
\* only by the summarization that returns, after the viewer of the
\* document was opened once, its page count read, every page captured and
\* the OCR call made in that attempt. While an attempt is under way, after
\* it failed and during a recovery the summary is the sentinel.
C35_SummaryOnlyFromCompletedAttempt ==
    /\ [](\A k \in 1..Len(processedDocs) :
            processedDocs[k].summary # Sentinel =>
                /\ docLog[k].completed
                /\ docLog[k].attempts \in 1..2)
    /\ [][(summary' # summary /\ summary' # Sentinel /\ pc # "done") =>
            /\ pc = "summarize"
            /\ pc' = "docFinally"
            /\ page.at = "viewer"
            /\ calls.open = 1
            /\ calls.ocr = 1
            /\ Len(images) = pageCount
            /\ documentUrl # NullUrl
            /\ err' = NULL]_vars
    /\ [](pc \in BeforeSummary => summary = Sentinel)
    /\ [][(pc' = "docFinally" /\ pc # "summarize") => summary' = Sentinel]_vars
    /\ [][pc = "docFinally" =>
            processedDocs'[Len(processedDocs')].summary = summary]_vars

\* README.md: the first attempt of the second document lost the session,
\* the attempt after the recovery completed every step, and the record of
\* the first document, whose only attempt failed, holds the sentinel
C35_SummaryFromTheRetry ==
    /\ pc = "docFinally"
    /\ index = 2
    /\ attempt = 2
    /\ summary = GeneratedSummary(DocumentText)
    /\ processedDocs[1].summary = Sentinel
    /\ ~docLog[1].completed

\* the capture run of the property at hand has returned a failure, or a
\* success with no records
ReturnedNothing ==
    /\ opc = "clerk"
    /\ pc = "done"
    /\ ~raised
    /\ (~result.success \/ result.data = <<>>)

\* C36: if the capture run of a property returns failure, or success with
\* no records, the capture stage writes nothing: the orchestrator logs the
\* outcome and goes to its next iteration, and the document rows stored for
\* every property and the rows of the assessment save (owners, ownership
\* history, value history) are those of before
C36_NothingWrittenWithoutRecords ==
    [][ReturnedNothing =>
          /\ opc' = NextIteration
          /\ UNCHANGED <<property_documents, owners, ownership_history,
                         value_history, property>>
          /\ stages' = Append(stages,
                 StageEntry(property, "clerk failed or empty",
                            ListingUnavailable, 0))]_vars

\* a capture run whose listing appeared has returned without records for a
\* property that has document rows of an earlier run, and they are still
\* stored
C36_EarlierRowsKeptAfterEmptyCapture ==
    /\ opc = NextIteration
    /\ property \in 1..BatchSize
    /\ stages # <<>>
    /\ stages[Len(stages)].property = property
    /\ stages[Len(stages)].outcome = "clerk failed or empty"
    /\ ~stages[Len(stages)].unavailable
    /\ property_documents[property] = EarlierDocuments(property)

\* C37: withRetry(fn, retries) calls fn until its first success and returns
\* that result without calling fn again; if every call fails it makes
\* exactly retries + 1 calls, in sequence, and rethrows the error of the
\* last call. Here for the two calls of the assessment scraper, with the
\* default of retries: fn is called only inside its withRetry, one call per
\* iteration; withRetry goes on only after a call that failed with a retry
\* left; it is left either by the return of a call that succeeded or, after
\* call retries + 1 failed, with the error of that call; and it is never
\* entered again.
C37_WithRetryStopsAtFirstSuccess ==
    /\ [](\A c \in RetriedCalls : fnCalls[c] <= Retries + 1)
    /\ [][\A c \in RetriedCalls :
            fnCalls'[c] # fnCalls[c] =>
                /\ apc = c
                /\ ~delayed
                /\ fnCalls[c] = retry
                /\ fnCalls'[c] = fnCalls[c] + 1]_vars
    /\ [][(apc \in RetriedCalls /\ fnCalls' # fnCalls /\ apc' = apc) =>
            /\ delayed'
            /\ fnCalls'[apc] <= Retries
            /\ caught' = caught]_vars
    /\ [][(apc \in RetriedCalls /\ apc' # apc) =>
            \/ /\ apc' = AfterRetried(apc)
               /\ fnCalls'[apc] = fnCalls[apc] + 1
               /\ caught' = NoError
            \/ /\ apc' = "catch"
               /\ fnCalls'[apc] = Retries + 1
               /\ caught' = ErrorOf(apc, Retries + 1)]_vars
    /\ [][\A c \in RetriedCalls : (apc # c /\ apc' = c) => fnCalls[c] = 0]_vars

\* the three calls of the extract of the main page data have failed, after
\* an extract of the legal description that succeeded at its second call,
\* and the catch clause of the scraper holds the error of the third call
C37_ThirdFailureRethrown ==
    /\ apc = "catch"
    /\ fnCalls = [c \in RetriedCalls |->
                     IF c = "legalDescriptionData" THEN 2 ELSE Retries + 1]
    /\ caught = ErrorOf("mainPageData", Retries + 1)

\* C38: given that every remote call returns or raises in finite time and
\* that the listing and the page counts are finite, runClerkScraper
\* terminates: the run reaches its end, returned or failed; the documents
\* are visited one after the other in the order of the matched list, no
\* document is visited again once the next is started, and no document gets
\* more than two capture attempts.
C38_RunTerminates ==
    /\ <>(pc = "done")
    /\ [](\A k \in 1..Len(docLog) : docLog[k].attempts <= 2)
    /\ [](attempt \in 0..2)
    /\ [][index' # index =>
            /\ index' = index + 1
            /\ index' \in 1..Len(filteredDocuments')
            /\ attempt' = 1
            /\ Len(docLog') = index']_vars
    /\ [][Len(docLog') # Len(docLog) => index' # index]_vars
    /\ [][Len(processedDocs') # Len(processedDocs) =>
            /\ pc = "docFinally"
            /\ Len(processedDocs) = index - 1
            /\ Len(processedDocs') = index]_vars
    /\ [](pc \in {"screenshot", "nextPage"} => pageNo \in 1..pageCount)
    /\ [](pageCount \in 0..MaxPages)

\* README.md: the run has ended after three documents, the second of which
\* was attempted twice
C38_EndedAfterThreeDocuments ==
    /\ pc = "done"
    /\ variant = "readme"
    /\ Len(filteredDocuments) = MaxDocs
    /\ Len(processedDocs) = MaxDocs
    /\ docLog[2].attempts = 2

\* no two consecutive spaces in s
NoDoubleSpace(s) ==
    \A i \in 1..(Len(s) - 1) : ~(IsSpaceChar(s[i]) /\ IsSpaceChar(s[i + 1]))

\* no whitespace at either end of s
NoOuterSpace(s) ==
    s # <<>> => (~IsSpaceChar(s[1]) /\ ~IsSpaceChar(s[Len(s)]))

\* C39: normalizeOwnerName is idempotent, normalizeOwnerName of its result
\* is that result, for every raw name, and its result never contains two
\* consecutive spaces or leading or trailing whitespace
C39_NormalizeIsIdempotent ==
    (tpc = "normalized") =>
        /\ normalizeOwnerName(tOutput) = tOutput
        /\ NoDoubleSpace(tOutput)
        /\ NoOuterSpace(tOutput)

\* the same for the names in which "& ET AL" stands nowhere but at the end
IdempotentWithoutInnerEtAl ==
    (/\ tpc = "normalized"
     /\ LET collapsed ==
               CollapseSpaces(RemoveCommasAndPeriods(toUpperCase(tInput.text)), 1)
        IN  \A i \in 1..Len(collapsed) :
                EtAlEnd(collapsed, i) \in {0, Len(collapsed) + 1}) =>
        /\ normalizeOwnerName(tOutput) = tOutput
        /\ NoDoubleSpace(tOutput)
        /\ NoOuterSpace(tOutput)


=============================================================================
